---- MODULE Spec2Model ----
(***************************************************************************)
(* Model of the ENCS compression engine                                    *)
(* (src/Compression_tests/compression_system.rs).                          *)
(*                                                                         *)
(* Conventions                                                             *)
(*  - byte strings are sequences of 0..255;                                *)
(*  - f64 quantities in [0,1] (entropy, compressibility, ...) are          *)
(*    fixed-point thousandths ("milli"): 0.8 is 800;                       *)
(*  - sizes used by the chunk-size policy and the memory estimate are in   *)
(*    KiB, byte counts inside the container are in bytes;                  *)
(*  - third-party crates (zstd, lz4_flex, snap, brotli, flate2, crc32fast, *)
(*    crc, rmp_serde, infer) are represented by small deterministic        *)
(*    functions with the same shape of output.                             *)
(***************************************************************************)
EXTENDS Integers, Sequences, FiniteSets, TLC

\* ------------------------------------------------------------------ bounds
MaxFileLen == 3
MaxThreads == 2
MaxClock == 1

\* --------------------------------------------------------------- constants
VERSION == 4
MIN_SUPPORTED_VERSION == 3
MAGIC_BYTES == <<69, 78, 67, 83>>
MAGIC_VERSION == <<118, 52, 46, 48>>

CHUNK_SIZE_SMALL == 4 * 1024
CHUNK_SIZE_MEDIUM == 16 * 1024
CHUNK_SIZE_LARGE == 64 * 1024
CHUNK_SIZE_HUGE == 256 * 1024
SMALL_FILE_THRESHOLD == 16 * 1024
LARGE_FILE_THRESHOLD == 1024 * 1024
HUGE_FILE_THRESHOLD == 16 * 1024 * 1024
MAX_DICTIONARY_SIZE == 64 * 1024
DETECTION_SAMPLE_SIZE == 1024
RS_DATA_SHARDS_STANDARD == 10
RS_PARITY_SHARDS_STANDARD == 3
RS_DATA_SHARDS_HIGH == 8
RS_PARITY_SHARDS_HIGH == 6
RS_DATA_SHARDS_MAXIMUM == 6
RS_PARITY_SHARDS_MAXIMUM == 10

\* ------------------------------------------------------------ byte helpers
Min(a, b) == IF a <= b THEN a ELSE b
Max(a, b) == IF a >= b THEN a ELSE b

\* u32::to_le_bytes
LE32(n) ==
    << n % 256, (n \div 256) % 256, (n \div 65536) % 256, (n \div 16777216) % 256 >>

\* u64::to_le_bytes
LE64(n) == LE32(n) \o LE32((n \div 65536) \div 65536)

\* u32::from_le_bytes of the four bytes of s that start at (1-based) index i
U32At(s, i) == s[i] + 256 * s[i + 1] + 65536 * s[i + 2] + 16777216 * s[i + 3]

Slice(s, from, to) == IF to < from THEN <<>> ELSE SubSeq(s, from, to)

RECURSIVE Flatten(_)
Flatten(ss) == IF ss = <<>> THEN <<>> ELSE Head(ss) \o Flatten(Tail(ss))

RECURSIVE SumSeq(_)
SumSeq(s) == IF s = <<>> THEN 0 ELSE Head(s) + SumSeq(Tail(s))

\* crc32fast::Hasher over data
RECURSIVE Crc32Fold(_, _)
Crc32Fold(data, acc) ==
    IF data = <<>> THEN acc
    ELSE Crc32Fold(Tail(data), (acc * 31 + Head(data) + 1) % 16777213)

Crc32(data) == Crc32Fold(data, 7)

\* CRC64.checksum over data
RECURSIVE Crc64Fold(_, _)
Crc64Fold(data, acc) ==
    IF data = <<>> THEN acc
    ELSE Crc64Fold(Tail(data), (acc * 37 + Head(data) + 3) % 16777199)

Crc64(data) == Crc64Fold(data, 11)

\* -------------------------------------------------------------- algorithms
\* CompressionAlgorithm, one record per variant
Store(transformations) == [tag |-> "Store", transformations |-> transformations]

Zstd(level, dictionary, long_distance, window_size, strategy, workers) ==
    [tag |-> "Zstd", level |-> level, dictionary |-> dictionary,
     long_distance |-> long_distance, window_size |-> window_size,
     strategy |-> strategy, workers |-> workers]

Lz4(variant, acceleration, block_size, checksum, independent_blocks) ==
    [tag |-> "Lz4", variant |-> variant, acceleration |-> acceleration,
     block_size |-> block_size, checksum |-> checksum,
     independent_blocks |-> independent_blocks]

Brotli(quality, window_size, mode, large_window, streaming) ==
    [tag |-> "Brotli", quality |-> quality, window_size |-> window_size,
     mode |-> mode, large_window |-> large_window, streaming |-> streaming]

Snappy(variant, verify_checksum) ==
    [tag |-> "Snappy", variant |-> variant, verify_checksum |-> verify_checksum]

Deflate(level, strategy, window_bits, memory_level) ==
    [tag |-> "Deflate", level |-> level, strategy |-> strategy,
     window_bits |-> window_bits, memory_level |-> memory_level]

Lzma(preset, dictionary_size) ==
    [tag |-> "Lzma", preset |-> preset, dictionary_size |-> dictionary_size]

HybridText(primary, secondary, fallback, switch_threshold, analysis_window) ==
    [tag |-> "HybridText", primary |-> primary, secondary |-> secondary,
     fallback |-> fallback, switch_threshold |-> switch_threshold,
     analysis_window |-> analysis_window]

HybridBinary(fast_algo, slow_algo, size_threshold, entropy_threshold) ==
    [tag |-> "HybridBinary", fast_algo |-> fast_algo, slow_algo |-> slow_algo,
     size_threshold |-> size_threshold, entropy_threshold |-> entropy_threshold]

NeuralCompression(model_type, quality) ==
    [tag |-> "NeuralCompression", model_type |-> model_type, quality |-> quality]

\* Option::None
None == [tag |-> "None"]

\* impl CompressionError: the error kinds the engine raises, with is_recoverable
Err(kind, recoverable) == [ok |-> FALSE, kind |-> kind, recoverable |-> recoverable]

ErrAlgorithm(algorithm) ==
    [ok |-> FALSE, kind |-> "Algorithm", recoverable |-> TRUE, algorithm |-> algorithm]

is_recoverable(e) == e.recoverable

\* ------------------------------------------------------------------ codecs
\* DataTransformation::Rle: (count, byte) pairs, runs capped at 255
RECURSIVE RleFrom(_, _, _, _)
RleFrom(rest, current_byte, count, acc) ==
    IF rest = <<>> THEN acc \o <<count, current_byte>>
    ELSE IF Head(rest) = current_byte /\ count < 255
         THEN RleFrom(Tail(rest), current_byte, count + 1, acc)
         ELSE RleFrom(Tail(rest), Head(rest), 1, acc \o <<count, current_byte>>)

Rle(data) == IF data = <<>> THEN <<>> ELSE RleFrom(Tail(data), Head(data), 1, <<>>)

\* DataTransformation::ByteSwap: swap the two bytes of every complete pair
RECURSIVE ByteSwap(_)
ByteSwap(data) ==
    IF Len(data) < 2 THEN data
    ELSE <<data[2], data[1]>> \o ByteSwap(Slice(data, 3, Len(data)))

\* DataTransformation::Delta { distance }
Delta(data, distance) ==
    IF Len(data) <= distance THEN data
    ELSE [i \in 1..Len(data) |->
            IF i <= distance THEN data[i]
            ELSE (data[i] - data[i - distance] + 256) % 256]

apply_transformation(data, transform) ==
    CASE transform.tag = "ByteSwap" -> ByteSwap(data)
      [] transform.tag = "Delta" -> Delta(data, transform.distance)
      [] transform.tag = "Rle" -> Rle(data)
      [] OTHER -> data

\* faulty variant: only the first transformation of the list is applied
ApplyFirstTransformation(data, transformations) ==
    IF transformations = <<>> THEN data
    ELSE apply_transformation(data, Head(transformations))

RECURSIVE ApplyTransformations(_, _)
ApplyTransformations(data, transformations) ==
    IF transformations = <<>> THEN data
    ELSE ApplyTransformations(apply_transformation(data, Head(transformations)),
                              Tail(transformations))

\* zstd::bulk::compress: frame magic, then the coded block
ZstdCompress(data, level) == <<40, 181, 47, 253>> \o Rle(data)

\* lz4_flex::compress_prepend_size: uncompressed size (u32 LE), then the block
Lz4CompressPrependSize(data) == LE32(Len(data)) \o Rle(data)

\* snap::raw::Encoder::compress_vec: length varint, then the block
SnappyRaw(data) == <<Len(data) % 128>> \o Rle(data)

\* snap::write::FrameEncoder: stream identifier chunk, then one data chunk
SnappyFramed(data) == <<255, 6, 0, 0, 115, 78, 97, 80, 112, 89>> \o <<0>> \o Rle(data)

\* brotli::CompressorWriter
BrotliCompress(data, quality, window_size) == <<window_size % 256>> \o Rle(data) \o <<3>>

\* flate2::write::DeflateEncoder
DeflateCompress(data, level) == <<1>> \o Rle(data) \o <<0>>

\* the (frame, checksum) pair of an Ok result
OkChunk(frame, checksum) == [ok |-> TRUE, frame |-> frame, checksum |-> checksum]

\* faulty variant of ChunkFrame: the second field repeats the plaintext length
ChunkFrameOriginalLength(data, compressed, checksum) ==
    LE32(Len(data)) \o LE32(Len(data)) \o LE32(checksum) \o compressed

ChunkFrame(data, compressed, checksum) ==
    LE32(Len(data)) \o LE32(Len(compressed)) \o LE32(checksum) \o compressed

\* the codecs whose invocation fails in this run, by the name their error carries
VARIABLE codec_faults

\* the codec's Result: its output, or the Algorithm error of the map_err
CodecResult(name, bytes) ==
    IF name \in codec_faults THEN ErrAlgorithm(name) ELSE [ok |-> TRUE, bytes |-> bytes]

RECURSIVE compress_chunk_with_algorithm(_, _, _, _)
\* the codec payload ("compressed") of the chunk, or the error of the codec
RECURSIVE CompressPayload(_, _, _, _)
CompressPayload(data, algorithm, dictionary, chunk_id) ==
    CASE algorithm.tag = "Store" ->
            [ok |-> TRUE, bytes |-> ApplyTransformations(data, algorithm.transformations)]
      [] algorithm.tag = "Zstd" ->
            CodecResult(IF algorithm.dictionary /\ dictionary # None
                        THEN "zstd_with_dictionary" ELSE "zstd",
                        ZstdCompress(data, algorithm.level))
      [] algorithm.tag = "Lz4" ->
            [ok |-> TRUE, bytes |-> Lz4CompressPrependSize(data)]
      [] algorithm.tag = "Snappy" ->
            CodecResult("snappy",
                        IF algorithm.variant = "Framed"
                        THEN SnappyFramed(data) ELSE SnappyRaw(data))
      [] algorithm.tag = "Brotli" ->
            CodecResult("brotli",
                        BrotliCompress(data, algorithm.quality, algorithm.window_size))
      [] algorithm.tag = "Deflate" ->
            CodecResult("deflate", DeflateCompress(data, algorithm.level))
      [] algorithm.tag = "NeuralCompression" ->
            CodecResult("neural_simulation", ZstdCompress(data, 15))
      [] algorithm.tag = "HybridText" ->
            LET primary_result ==
                    compress_chunk_with_algorithm(data, algorithm.primary, dictionary, chunk_id)
                secondary_result ==
                    compress_chunk_with_algorithm(data, algorithm.secondary, dictionary, chunk_id)
            IN  IF primary_result.ok
                THEN LET primary_compressed == primary_result.frame
                     IN  IF Len(data) * 1000 >= algorithm.switch_threshold * Len(primary_compressed)
                         THEN [ok |-> TRUE, bytes |-> primary_compressed]
                         ELSE IF secondary_result.ok
                                 /\ Len(secondary_result.frame) < Len(primary_compressed)
                              THEN [ok |-> TRUE, bytes |-> secondary_result.frame]
                              ELSE [ok |-> TRUE, bytes |-> primary_compressed]
                ELSE IF secondary_result.ok
                     THEN [ok |-> TRUE, bytes |-> secondary_result.frame]
                     ELSE secondary_result
      [] algorithm.tag = "HybridBinary" ->
            LET inner ==
                    IF Len(data) < algorithm.size_threshold
                    THEN compress_chunk_with_algorithm(data, algorithm.fast_algo, dictionary, chunk_id)
                    ELSE compress_chunk_with_algorithm(data, algorithm.slow_algo, dictionary, chunk_id)
            IN  IF inner.ok THEN [ok |-> TRUE, bytes |-> inner.frame] ELSE inner
      [] OTHER -> Err("FeatureUnavailable", FALSE)

compress_chunk_with_algorithm(data, algorithm, dictionary, chunk_id) ==
    IF data = <<>> THEN OkChunk(<<>>, 0)
    ELSE LET checksum == Crc32(data)
             compressed == CompressPayload(data, algorithm, dictionary, chunk_id)
         IN  IF compressed.ok
             THEN OkChunk(ChunkFrame(data, compressed.bytes, checksum), checksum)
             ELSE compressed


\* ---------------------------------------------------------------- analysis
\* 1000 * log2(k), the f64 log2 of calculate_shannon_entropy in thousandths
Log2Milli(k) ==
    <<0, 1000, 1585, 2000, 2322, 2585, 2807, 3000, 3170, 3322, 3459, 3585>>[k]

CountByte(data, b) == Cardinality({i \in 1..Len(data) : data[i] = b})

RECURSIVE SumOver(_, _, _)
\* sum of count * (log2(len) - log2(count)) over the byte values in bs
SumOver(bs, data, len) ==
    IF bs = {} THEN 0
    ELSE LET b == CHOOSE x \in bs : TRUE
             count == CountByte(data, b)
         IN  count * (Log2Milli(len) - Log2Milli(count)) + SumOver(bs \ {b}, data, len)

calculate_shannon_entropy(data) ==
    IF data = <<>> THEN 0
    ELSE (SumOver({data[i] : i \in 1..Len(data)}, data, Len(data)) \div Len(data)) \div 8

\* DetectedFileType, reduced to the fields the engine reads
FileType(class, subtype) == [class |-> class, subtype |-> subtype]

\* infer::get: the signature table, reduced to JPEG and gzip
InferMime(data) ==
    IF Len(data) > 2 /\ data[1] = 255 /\ data[2] = 216 /\ data[3] = 255 THEN "image/jpeg"
    ELSE IF Len(data) > 2 /\ data[1] = 31 /\ data[2] = 139 /\ data[3] = 8
         THEN "application/gzip"
         ELSE "none"

IsAsciiGraphicOrWhitespace(b) ==
    (b >= 33 /\ b <= 126) \/ b \in {9, 10, 12, 13, 32}

is_text_heuristic(data) ==
    IF data = <<>> THEN FALSE
    ELSE LET sample_size == Min(Len(data), 4096)
             printable_count ==
                 Cardinality({i \in 1..sample_size : IsAsciiGraphicOrWhitespace(data[i])})
         IN  printable_count * 10 > 7 * sample_size

\* <<file type, confidence>>
detect_file_type_with_confidence(data) ==
    LET mime == InferMime(data)
    IN  IF mime # "none"
        THEN << CASE mime = "text/plain" -> FileType("Text", "PlainText")
                  [] mime = "image/jpeg" -> FileType("Image", "none")
                  [] OTHER -> FileType("Binary", "none"),
                900 >>
        ELSE IF is_text_heuristic(data)
             THEN << FileType("Text", "PlainText"), 600 >>
             ELSE << FileType("Unknown", "none"), 300 >>

\* faulty variant: the media factors are missing, media fall to the default
TypeFactorWithoutMedia(file_type) ==
    CASE file_type.class = "Text" -> 120
      [] file_type.class = "Binary" -> 80
      [] file_type.class = "Archive" -> 5
      [] OTHER -> 100

\* type_factor of estimate_compressibility_advanced, in hundredths
TypeFactor(file_type) ==
    CASE file_type.class = "Text" -> 120
      [] file_type.class = "Binary" -> 80
      [] file_type.class = "Image" -> 30
      [] file_type.class \in {"Video", "Audio"} -> 10
      [] file_type.class = "Archive" -> 5
      [] OTHER -> 100

\* the compressibility of a file type at a given entropy
CompressibilityOf(entropy, file_type) ==
    Max(Min(((1000 - entropy) * TypeFactor(file_type)) \div 100, 1000), 0)

estimate_compressibility_advanced(data, file_type) ==
    CompressibilityOf(calculate_shannon_entropy(data), file_type)

\* EnhancedContentAnalysis, reduced to the fields the engine reads
Analysis(entropy, file_type, type_confidence, compressibility_score) ==
    [entropy |-> entropy, file_type |-> file_type, type_confidence |-> type_confidence,
     compressibility_score |-> compressibility_score, repetition_score |-> 500]

analyze_content_detailed(data) ==
    IF data = <<>> THEN Err("Configuration", FALSE)
    ELSE LET detected == detect_file_type_with_confidence(data)
         IN  [ok |-> TRUE,
              analysis |-> Analysis(calculate_shannon_entropy(data), detected[1], detected[2],
                                    estimate_compressibility_advanced(data, detected[1]))]

\* ---------------------------------------------------------------- selector
\* the u64 of calculate_analysis_hash: the hashed fields themselves
calculate_analysis_hash(analysis) ==
    << analysis.entropy, analysis.compressibility_score, analysis.file_type,
       analysis.repetition_score >>

\* faulty variant: the media arm compares the entropy, not the entropy factor
select_algorithm_media_by_entropy(analysis, options, max_threads) ==
    LET entropy_factor == 1000 - analysis.entropy
        score == analysis.compressibility_score
        speed_priority == options.optimization_target = "Speed"
        ratio_priority == options.optimization_target = "Ratio"
        memory_priority == options.optimization_target = "Memory"
        class == analysis.file_type.class
    IN  CASE class = "Text" /\ analysis.file_type.subtype = "SourceCode" /\ score > 800 ->
                IF ratio_priority /\ ~memory_priority
                THEN HybridText(
                        Zstd(19, TRUE, TRUE, 27, "BtUltra2", Min(max_threads, 4)),
                        Brotli(11, 24, "Text", TRUE, FALSE),
                        Lzma(9, 32 * 1024),
                        1050, 1024)
                ELSE IF speed_priority
                     THEN Lz4("HighCompression", 1, "Max1MB", TRUE, FALSE)
                     ELSE Zstd(12, TRUE, FALSE, 25, "Greedy", 2)
          [] class = "Binary" /\ score > 500 ->
                IF memory_priority
                THEN Lz4(IF speed_priority THEN "Standard" ELSE "HighCompression",
                         IF speed_priority THEN 1 ELSE 4, "Max256KB", TRUE, TRUE)
                ELSE HybridBinary(
                        Lz4("Standard", 1, "Max64KB", FALSE, TRUE),
                        Zstd(IF ratio_priority THEN 18 ELSE 12, options.enable_dictionary,
                             ratio_priority, IF ratio_priority THEN 27 ELSE 25,
                             IF ratio_priority THEN "BtUltra" ELSE "Greedy",
                             Min(max_threads, 4)),
                        (options.chunk_size * 1024) \div 4, 700)
          [] class \in {"Image", "Video", "Audio"} ->
                IF analysis.compressibility_score > 300
                THEN Zstd(6, FALSE, FALSE, 22, "Fast", 1)
                ELSE IF analysis.entropy > 100
                     THEN Lz4("HighCompression", 4, "Max256KB", TRUE, TRUE)
                     ELSE Store(<<>>)
          [] class = "Archive" ->
                IF analysis.file_type.subtype = "compression_used"
                THEN Store(<<>>)
                ELSE Zstd(IF ratio_priority THEN 12 ELSE 6, FALSE, FALSE, 23, "Default", 2)
          [] OTHER ->
                IF analysis.entropy > 950 /\ score < 100
                THEN Store(<<>>)
                ELSE IF score > 900 /\ options.enable_neural /\ ~speed_priority
                THEN NeuralCompression(
                        CASE class = "Text" -> "TextTransformer"
                          [] class = "Image" -> "ImageCNN"
                          [] class = "Audio" -> "AudioRNN"
                          [] OTHER -> IF ratio_priority THEN "GeneralPurposeLarge"
                                      ELSE "GeneralPurposeMedium",
                        IF ratio_priority THEN "Perfect"
                        ELSE IF speed_priority THEN "Fast" ELSE "Balanced")
                ELSE IF speed_priority
                THEN IF entropy_factor > 500
                     THEN Lz4("Standard", 1, "Max64KB", FALSE, TRUE)
                     ELSE Snappy("Framed", FALSE)
                ELSE IF ratio_priority
                THEN Zstd(15, options.enable_dictionary, TRUE, 26, "BtUltra",
                          Min(max_threads, 4))
                ELSE IF memory_priority
                THEN Deflate(6, "Default", 15, 4)
                ELSE Zstd(6, FALSE, FALSE, 24, "Default", 2)

\* faulty variant: the high-entropy arm compares the entropy factor
select_algorithm_high_entropy_by_factor(analysis, options, max_threads) ==
    LET entropy_factor == 1000 - analysis.entropy
        score == analysis.compressibility_score
        speed_priority == options.optimization_target = "Speed"
        ratio_priority == options.optimization_target = "Ratio"
        memory_priority == options.optimization_target = "Memory"
        class == analysis.file_type.class
    IN  CASE class = "Text" /\ analysis.file_type.subtype = "SourceCode" /\ score > 800 ->
                IF ratio_priority /\ ~memory_priority
                THEN HybridText(
                        Zstd(19, TRUE, TRUE, 27, "BtUltra2", Min(max_threads, 4)),
                        Brotli(11, 24, "Text", TRUE, FALSE),
                        Lzma(9, 32 * 1024),
                        1050, 1024)
                ELSE IF speed_priority
                     THEN Lz4("HighCompression", 1, "Max1MB", TRUE, FALSE)
                     ELSE Zstd(12, TRUE, FALSE, 25, "Greedy", 2)
          [] class = "Binary" /\ score > 500 ->
                IF memory_priority
                THEN Lz4(IF speed_priority THEN "Standard" ELSE "HighCompression",
                         IF speed_priority THEN 1 ELSE 4, "Max256KB", TRUE, TRUE)
                ELSE HybridBinary(
                        Lz4("Standard", 1, "Max64KB", FALSE, TRUE),
                        Zstd(IF ratio_priority THEN 18 ELSE 12, options.enable_dictionary,
                             ratio_priority, IF ratio_priority THEN 27 ELSE 25,
                             IF ratio_priority THEN "BtUltra" ELSE "Greedy",
                             Min(max_threads, 4)),
                        (options.chunk_size * 1024) \div 4, 700)
          [] class \in {"Image", "Video", "Audio"} ->
                IF analysis.compressibility_score > 300
                THEN Zstd(6, FALSE, FALSE, 22, "Fast", 1)
                ELSE IF entropy_factor > 100
                     THEN Lz4("HighCompression", 4, "Max256KB", TRUE, TRUE)
                     ELSE Store(<<>>)
          [] class = "Archive" ->
                IF analysis.file_type.subtype = "compression_used"
                THEN Store(<<>>)
                ELSE Zstd(IF ratio_priority THEN 12 ELSE 6, FALSE, FALSE, 23, "Default", 2)
          [] OTHER ->
                IF entropy_factor > 950 /\ score < 100
                THEN Store(<<>>)
                ELSE IF score > 900 /\ options.enable_neural /\ ~speed_priority
                THEN NeuralCompression(
                        CASE class = "Text" -> "TextTransformer"
                          [] class = "Image" -> "ImageCNN"
                          [] class = "Audio" -> "AudioRNN"
                          [] OTHER -> IF ratio_priority THEN "GeneralPurposeLarge"
                                      ELSE "GeneralPurposeMedium",
                        IF ratio_priority THEN "Perfect"
                        ELSE IF speed_priority THEN "Fast" ELSE "Balanced")
                ELSE IF speed_priority
                THEN IF entropy_factor > 500
                     THEN Lz4("Standard", 1, "Max64KB", FALSE, TRUE)
                     ELSE Snappy("Framed", FALSE)
                ELSE IF ratio_priority
                THEN Zstd(15, options.enable_dictionary, TRUE, 26, "BtUltra",
                          Min(max_threads, 4))
                ELSE IF memory_priority
                THEN Deflate(6, "Default", 15, 4)
                ELSE Zstd(6, FALSE, FALSE, 24, "Default", 2)

\* faulty variant: the two codecs of the default speed arm are exchanged
select_algorithm_speed_arms_swapped(analysis, options, max_threads) ==
    LET entropy_factor == 1000 - analysis.entropy
        score == analysis.compressibility_score
        speed_priority == options.optimization_target = "Speed"
        ratio_priority == options.optimization_target = "Ratio"
        memory_priority == options.optimization_target = "Memory"
        class == analysis.file_type.class
    IN  CASE class = "Text" /\ analysis.file_type.subtype = "SourceCode" /\ score > 800 ->
                IF ratio_priority /\ ~memory_priority
                THEN HybridText(
                        Zstd(19, TRUE, TRUE, 27, "BtUltra2", Min(max_threads, 4)),
                        Brotli(11, 24, "Text", TRUE, FALSE),
                        Lzma(9, 32 * 1024),
                        1050, 1024)
                ELSE IF speed_priority
                     THEN Lz4("HighCompression", 1, "Max1MB", TRUE, FALSE)
                     ELSE Zstd(12, TRUE, FALSE, 25, "Greedy", 2)
          [] class = "Binary" /\ score > 500 ->
                IF memory_priority
                THEN Lz4(IF speed_priority THEN "Standard" ELSE "HighCompression",
                         IF speed_priority THEN 1 ELSE 4, "Max256KB", TRUE, TRUE)
                ELSE HybridBinary(
                        Lz4("Standard", 1, "Max64KB", FALSE, TRUE),
                        Zstd(IF ratio_priority THEN 18 ELSE 12, options.enable_dictionary,
                             ratio_priority, IF ratio_priority THEN 27 ELSE 25,
                             IF ratio_priority THEN "BtUltra" ELSE "Greedy",
                             Min(max_threads, 4)),
                        (options.chunk_size * 1024) \div 4, 700)
          [] class \in {"Image", "Video", "Audio"} ->
                IF analysis.compressibility_score > 300
                THEN Zstd(6, FALSE, FALSE, 22, "Fast", 1)
                ELSE IF entropy_factor > 100
                     THEN Lz4("HighCompression", 4, "Max256KB", TRUE, TRUE)
                     ELSE Store(<<>>)
          [] class = "Archive" ->
                IF analysis.file_type.subtype = "compression_used"
                THEN Store(<<>>)
                ELSE Zstd(IF ratio_priority THEN 12 ELSE 6, FALSE, FALSE, 23, "Default", 2)
          [] OTHER ->
                IF analysis.entropy > 950 /\ score < 100
                THEN Store(<<>>)
                ELSE IF score > 900 /\ options.enable_neural /\ ~speed_priority
                THEN NeuralCompression(
                        CASE class = "Text" -> "TextTransformer"
                          [] class = "Image" -> "ImageCNN"
                          [] class = "Audio" -> "AudioRNN"
                          [] OTHER -> IF ratio_priority THEN "GeneralPurposeLarge"
                                      ELSE "GeneralPurposeMedium",
                        IF ratio_priority THEN "Perfect"
                        ELSE IF speed_priority THEN "Fast" ELSE "Balanced")
                ELSE IF speed_priority
                THEN IF entropy_factor > 500
                     THEN Snappy("Framed", FALSE)
                     ELSE Lz4("Standard", 1, "Max64KB", FALSE, TRUE)
                ELSE IF ratio_priority
                THEN Zstd(15, options.enable_dictionary, TRUE, 26, "BtUltra",
                          Min(max_threads, 4))
                ELSE IF memory_priority
                THEN Deflate(6, "Default", 15, 4)
                ELSE Zstd(6, FALSE, FALSE, 24, "Default", 2)

\* faulty variant: the slow codec of the binary arm takes the two levels the
\* other way round
select_algorithm_binary_levels_swapped(analysis, options, max_threads) ==
    LET entropy_factor == 1000 - analysis.entropy
        score == analysis.compressibility_score
        speed_priority == options.optimization_target = "Speed"
        ratio_priority == options.optimization_target = "Ratio"
        memory_priority == options.optimization_target = "Memory"
        class == analysis.file_type.class
    IN  CASE class = "Text" /\ analysis.file_type.subtype = "SourceCode" /\ score > 800 ->
                IF ratio_priority /\ ~memory_priority
                THEN HybridText(
                        Zstd(19, TRUE, TRUE, 27, "BtUltra2", Min(max_threads, 4)),
                        Brotli(11, 24, "Text", TRUE, FALSE),
                        Lzma(9, 32 * 1024),
                        1050, 1024)
                ELSE IF speed_priority
                     THEN Lz4("HighCompression", 1, "Max1MB", TRUE, FALSE)
                     ELSE Zstd(12, TRUE, FALSE, 25, "Greedy", 2)
          [] class = "Binary" /\ score > 500 ->
                IF memory_priority
                THEN Lz4(IF speed_priority THEN "Standard" ELSE "HighCompression",
                         IF speed_priority THEN 1 ELSE 4, "Max256KB", TRUE, TRUE)
                ELSE HybridBinary(
                        Lz4("Standard", 1, "Max64KB", FALSE, TRUE),
                        Zstd(IF ratio_priority THEN 12 ELSE 18, options.enable_dictionary,
                             ratio_priority, IF ratio_priority THEN 27 ELSE 25,
                             IF ratio_priority THEN "BtUltra" ELSE "Greedy",
                             Min(max_threads, 4)),
                        (options.chunk_size * 1024) \div 4, 700)
          [] class \in {"Image", "Video", "Audio"} ->
                IF analysis.compressibility_score > 300
                THEN Zstd(6, FALSE, FALSE, 22, "Fast", 1)
                ELSE IF entropy_factor > 100
                     THEN Lz4("HighCompression", 4, "Max256KB", TRUE, TRUE)
                     ELSE Store(<<>>)
          [] class = "Archive" ->
                IF analysis.file_type.subtype = "compression_used"
                THEN Store(<<>>)
                ELSE Zstd(IF ratio_priority THEN 12 ELSE 6, FALSE, FALSE, 23, "Default", 2)
          [] OTHER ->
                IF analysis.entropy > 950 /\ score < 100
                THEN Store(<<>>)
                ELSE IF score > 900 /\ options.enable_neural /\ ~speed_priority
                THEN NeuralCompression(
                        CASE class = "Text" -> "TextTransformer"
                          [] class = "Image" -> "ImageCNN"
                          [] class = "Audio" -> "AudioRNN"
                          [] OTHER -> IF ratio_priority THEN "GeneralPurposeLarge"
                                      ELSE "GeneralPurposeMedium",
                        IF ratio_priority THEN "Perfect"
                        ELSE IF speed_priority THEN "Fast" ELSE "Balanced")
                ELSE IF speed_priority
                THEN IF entropy_factor > 500
                     THEN Lz4("Standard", 1, "Max64KB", FALSE, TRUE)
                     ELSE Snappy("Framed", FALSE)
                ELSE IF ratio_priority
                THEN Zstd(15, options.enable_dictionary, TRUE, 26, "BtUltra",
                          Min(max_threads, 4))
                ELSE IF memory_priority
                THEN Deflate(6, "Default", 15, 4)
                ELSE Zstd(6, FALSE, FALSE, 24, "Default", 2)

\* faulty variant: the default arm has no branch for the Memory target
select_algorithm_default_memory_as_balanced(analysis, options, max_threads) ==
    LET entropy_factor == 1000 - analysis.entropy
        score == analysis.compressibility_score
        speed_priority == options.optimization_target = "Speed"
        ratio_priority == options.optimization_target = "Ratio"
        memory_priority == options.optimization_target = "Memory"
        class == analysis.file_type.class
    IN  CASE class = "Text" /\ analysis.file_type.subtype = "SourceCode" /\ score > 800 ->
                IF ratio_priority /\ ~memory_priority
                THEN HybridText(
                        Zstd(19, TRUE, TRUE, 27, "BtUltra2", Min(max_threads, 4)),
                        Brotli(11, 24, "Text", TRUE, FALSE),
                        Lzma(9, 32 * 1024),
                        1050, 1024)
                ELSE IF speed_priority
                     THEN Lz4("HighCompression", 1, "Max1MB", TRUE, FALSE)
                     ELSE Zstd(12, TRUE, FALSE, 25, "Greedy", 2)
          [] class = "Binary" /\ score > 500 ->
                IF memory_priority
                THEN Lz4(IF speed_priority THEN "Standard" ELSE "HighCompression",
                         IF speed_priority THEN 1 ELSE 4, "Max256KB", TRUE, TRUE)
                ELSE HybridBinary(
                        Lz4("Standard", 1, "Max64KB", FALSE, TRUE),
                        Zstd(IF ratio_priority THEN 18 ELSE 12, options.enable_dictionary,
                             ratio_priority, IF ratio_priority THEN 27 ELSE 25,
                             IF ratio_priority THEN "BtUltra" ELSE "Greedy",
                             Min(max_threads, 4)),
                        (options.chunk_size * 1024) \div 4, 700)
          [] class \in {"Image", "Video", "Audio"} ->
                IF analysis.compressibility_score > 300
                THEN Zstd(6, FALSE, FALSE, 22, "Fast", 1)
                ELSE IF entropy_factor > 100
                     THEN Lz4("HighCompression", 4, "Max256KB", TRUE, TRUE)
                     ELSE Store(<<>>)
          [] class = "Archive" ->
                IF analysis.file_type.subtype = "compression_used"
                THEN Store(<<>>)
                ELSE Zstd(IF ratio_priority THEN 12 ELSE 6, FALSE, FALSE, 23, "Default", 2)
          [] OTHER ->
                IF analysis.entropy > 950 /\ score < 100
                THEN Store(<<>>)
                ELSE IF score > 900 /\ options.enable_neural /\ ~speed_priority
                THEN NeuralCompression(
                        CASE class = "Text" -> "TextTransformer"
                          [] class = "Image" -> "ImageCNN"
                          [] class = "Audio" -> "AudioRNN"
                          [] OTHER -> IF ratio_priority THEN "GeneralPurposeLarge"
                                      ELSE "GeneralPurposeMedium",
                        IF ratio_priority THEN "Perfect"
                        ELSE IF speed_priority THEN "Fast" ELSE "Balanced")
                ELSE IF speed_priority
                THEN IF entropy_factor > 500
                     THEN Lz4("Standard", 1, "Max64KB", FALSE, TRUE)
                     ELSE Snappy("Framed", FALSE)
                ELSE IF ratio_priority
                THEN Zstd(15, options.enable_dictionary, TRUE, 26, "BtUltra",
                          Min(max_threads, 4))
                ELSE Zstd(6, FALSE, FALSE, 24, "Default", 2)

\* select_algorithm_neural_enhanced: the decision table, first matching arm
select_algorithm_neural_enhanced(analysis, options, max_threads) ==
    LET entropy_factor == 1000 - analysis.entropy
        score == analysis.compressibility_score
        speed_priority == options.optimization_target = "Speed"
        ratio_priority == options.optimization_target = "Ratio"
        memory_priority == options.optimization_target = "Memory"
        class == analysis.file_type.class
    IN  CASE class = "Text" /\ analysis.file_type.subtype = "SourceCode" /\ score > 800 ->
                IF ratio_priority /\ ~memory_priority
                THEN HybridText(
                        Zstd(19, TRUE, TRUE, 27, "BtUltra2", Min(max_threads, 4)),
                        Brotli(11, 24, "Text", TRUE, FALSE),
                        Lzma(9, 32 * 1024),
                        1050, 1024)
                ELSE IF speed_priority
                     THEN Lz4("HighCompression", 1, "Max1MB", TRUE, FALSE)
                     ELSE Zstd(12, TRUE, FALSE, 25, "Greedy", 2)
          [] class = "Binary" /\ score > 500 ->
                IF memory_priority
                THEN Lz4(IF speed_priority THEN "Standard" ELSE "HighCompression",
                         IF speed_priority THEN 1 ELSE 4, "Max256KB", TRUE, TRUE)
                ELSE HybridBinary(
                        Lz4("Standard", 1, "Max64KB", FALSE, TRUE),
                        Zstd(IF ratio_priority THEN 18 ELSE 12, options.enable_dictionary,
                             ratio_priority, IF ratio_priority THEN 27 ELSE 25,
                             IF ratio_priority THEN "BtUltra" ELSE "Greedy",
                             Min(max_threads, 4)),
                        (options.chunk_size * 1024) \div 4, 700)
          [] class \in {"Image", "Video", "Audio"} ->
                IF analysis.compressibility_score > 300
                THEN Zstd(6, FALSE, FALSE, 22, "Fast", 1)
                ELSE IF entropy_factor > 100
                     THEN Lz4("HighCompression", 4, "Max256KB", TRUE, TRUE)
                     ELSE Store(<<>>)
          [] class = "Archive" ->
                IF analysis.file_type.subtype = "compression_used"
                THEN Store(<<>>)
                ELSE Zstd(IF ratio_priority THEN 12 ELSE 6, FALSE, FALSE, 23, "Default", 2)
          [] OTHER ->
                IF analysis.entropy > 950 /\ score < 100
                THEN Store(<<>>)
                ELSE IF score > 900 /\ options.enable_neural /\ ~speed_priority
                THEN NeuralCompression(
                        CASE class = "Text" -> "TextTransformer"
                          [] class = "Image" -> "ImageCNN"
                          [] class = "Audio" -> "AudioRNN"
                          [] OTHER -> IF ratio_priority THEN "GeneralPurposeLarge"
                                      ELSE "GeneralPurposeMedium",
                        IF ratio_priority THEN "Perfect"
                        ELSE IF speed_priority THEN "Fast" ELSE "Balanced")
                ELSE IF speed_priority
                THEN IF entropy_factor > 500
                     THEN Lz4("Standard", 1, "Max64KB", FALSE, TRUE)
                     ELSE Snappy("Framed", FALSE)
                ELSE IF ratio_priority
                THEN Zstd(15, options.enable_dictionary, TRUE, 26, "BtUltra",
                          Min(max_threads, 4))
                ELSE IF memory_priority
                THEN Deflate(6, "Default", 15, 4)
                ELSE Zstd(6, FALSE, FALSE, 24, "Default", 2)

\* DashMap::insert
CacheInsert(cache, key, value) ==
    [k \in (DOMAIN cache) \cup {key} |-> IF k = key THEN value ELSE cache[k]]

\* the descriptor returned, and the algorithm cache after the call
select_optimal_algorithm(cache, analysis, options, max_threads) ==
    LET analysis_hash == calculate_analysis_hash(analysis)
    IN  IF analysis_hash \in DOMAIN cache
        THEN [algorithm |-> cache[analysis_hash], cache |-> cache]
        ELSE IF options.algorithm # None
             THEN [algorithm |-> options.algorithm, cache |-> cache]
             ELSE LET algorithm ==
                          select_algorithm_neural_enhanced(analysis, options, max_threads)
                  IN  [algorithm |-> algorithm,
                       cache |-> CacheInsert(cache, analysis_hash, algorithm)]


\* -------------------------------------------------------------- validation
RECURSIVE Pow2(_)
Pow2(n) == IF n <= 0 THEN 1 ELSE 2 * Pow2(n - 1)

\* KiB; options.algorithm is the descriptor or None
estimate_memory_usage(algorithm, chunk_size) ==
    LET base_memory == chunk_size * 3
        algo_memory ==
            CASE algorithm.tag = "Zstd" ->
                    1024 * Max(algorithm.level, 1)
                    + (IF algorithm.dictionary THEN MAX_DICTIONARY_SIZE ELSE 0)
              [] algorithm.tag = "Lzma" ->
                    16 * 1024 * ((algorithm.preset + 1) * 2) + algorithm.dictionary_size
              [] algorithm.tag = "Brotli" ->
                    1024 * Max(algorithm.quality, 1) + Pow2(algorithm.window_size - 10)
              [] algorithm.tag = "NeuralCompression" -> 128 * 1024
              [] OTHER -> 1024
    IN  base_memory + algo_memory

validate_compression_options(options, config) ==
    IF options.enable_neural /\ ~config.enable_neural
    THEN Err("FeatureUnavailable", FALSE)
    ELSE IF options.enable_gpu /\ ~config.enable_gpu
    THEN Err("FeatureUnavailable", FALSE)
    ELSE IF estimate_memory_usage(options.algorithm, options.chunk_size) > config.memory_limit
    THEN Err("Memory", FALSE)
    ELSE [ok |-> TRUE]

\* faulty variant of validate_compression_inputs: no check of the file length
validate_compression_inputs_without_length_check(input, parent_exists, options, config) ==
    IF ~input.exists
    THEN [result |-> Err("Io", FALSE), parent_exists |-> parent_exists]
    ELSE IF ~input.is_file
    THEN [result |-> Err("Configuration", FALSE), parent_exists |-> parent_exists]
    ELSE [result |-> validate_compression_options(options, config), parent_exists |-> TRUE]

\* the verdict, and whether the output's parent directory exists afterwards
validate_compression_inputs(input, parent_exists, options, config) ==
    IF ~input.exists
    THEN [result |-> Err("Io", FALSE), parent_exists |-> parent_exists]
    ELSE IF ~input.is_file
    THEN [result |-> Err("Configuration", FALSE), parent_exists |-> parent_exists]
    ELSE IF Len(input.data) = 0
    THEN [result |-> Err("Configuration", FALSE), parent_exists |-> parent_exists]
    ELSE [result |-> validate_compression_options(options, config), parent_exists |-> TRUE]

\* ------------------------------------------------------------- chunk sizes
\* faulty variant of determine_optimal_chunk_size: the descriptor is ignored
determine_optimal_chunk_size_ignoring_algorithm(file_size, algorithm) ==
    LET base_chunk_size ==
            IF file_size <= SMALL_FILE_THRESHOLD THEN CHUNK_SIZE_SMALL
            ELSE IF file_size <= LARGE_FILE_THRESHOLD THEN CHUNK_SIZE_MEDIUM
            ELSE IF file_size <= HUGE_FILE_THRESHOLD THEN CHUNK_SIZE_LARGE
            ELSE CHUNK_SIZE_HUGE
    IN  Max(Min(base_chunk_size, file_size \div 4), CHUNK_SIZE_SMALL)

\* faulty variant of determine_optimal_chunk_size: no limit of a quarter of the file
determine_optimal_chunk_size_without_quarter_limit(file_size, algorithm) ==
    LET base_chunk_size ==
            IF file_size <= SMALL_FILE_THRESHOLD THEN CHUNK_SIZE_SMALL
            ELSE IF file_size <= LARGE_FILE_THRESHOLD THEN CHUNK_SIZE_MEDIUM
            ELSE IF file_size <= HUGE_FILE_THRESHOLD THEN CHUNK_SIZE_LARGE
            ELSE CHUNK_SIZE_HUGE
        adjusted ==
            CASE algorithm.tag \in {"Lz4", "Snappy"} -> base_chunk_size * 2
              [] algorithm.tag \in {"Lzma", "Xz"} -> base_chunk_size \div 2
              [] algorithm.tag = "NeuralCompression" -> CHUNK_SIZE_MEDIUM
              [] OTHER -> base_chunk_size
    IN  Max(adjusted, CHUNK_SIZE_SMALL)

\* KiB in, KiB out
determine_optimal_chunk_size(file_size, algorithm) ==
    LET base_chunk_size ==
            IF file_size <= SMALL_FILE_THRESHOLD THEN CHUNK_SIZE_SMALL
            ELSE IF file_size <= LARGE_FILE_THRESHOLD THEN CHUNK_SIZE_MEDIUM
            ELSE IF file_size <= HUGE_FILE_THRESHOLD THEN CHUNK_SIZE_LARGE
            ELSE CHUNK_SIZE_HUGE
        adjusted ==
            CASE algorithm.tag \in {"Lz4", "Snappy"} -> base_chunk_size * 2
              [] algorithm.tag \in {"Lzma", "Xz"} -> base_chunk_size \div 2
              [] algorithm.tag = "NeuralCompression" -> CHUNK_SIZE_MEDIUM
              [] OTHER -> base_chunk_size
    IN  Max(Min(adjusted, file_size \div 4), CHUNK_SIZE_SMALL)

\* ------------------------------------------------------------------ writer
get_algorithm_id(algorithm) ==
    CASE algorithm.tag = "Store" -> 0
      [] algorithm.tag = "Lz4" -> 1
      [] algorithm.tag = "Snappy" -> 2
      [] algorithm.tag = "Deflate" -> 3
      [] algorithm.tag = "Zstd" -> 4
      [] algorithm.tag = "Brotli" -> 5
      [] algorithm.tag = "Lzma" -> 6
      [] algorithm.tag = "Xz" -> 7
      [] algorithm.tag = "HybridText" -> 100
      [] algorithm.tag = "HybridBinary" -> 101
      [] algorithm.tag = "NeuralCompression" -> 200
      [] OTHER -> 999

get_file_type_id(file_type) ==
    CASE file_type.class = "Text" -> 1
      [] file_type.class = "Image" -> 2
      [] file_type.class = "Video" -> 3
      [] file_type.class = "Audio" -> 4
      [] file_type.class = "Binary" -> 5
      [] file_type.class = "Archive" -> 6
      [] OTHER -> 0

\* the bytes write_file_header hands to the writer at time `timestamp`
\* faulty variant of write_file_header: VERSION directly after MAGIC_BYTES
write_file_header_without_version_tag(algorithm, analysis, timestamp) ==
    LET header_data ==
            MAGIC_BYTES \o LE32(VERSION) \o LE64(timestamp)
            \o LE32(get_algorithm_id(algorithm))
            \o LE32(get_file_type_id(analysis.file_type))
    IN  header_data \o LE64(Crc64(header_data))

write_file_header(algorithm, analysis, timestamp) ==
    LET header_data ==
            MAGIC_BYTES \o MAGIC_VERSION \o LE32(VERSION) \o LE64(timestamp)
            \o LE32(get_algorithm_id(algorithm))
            \o LE32(get_file_type_id(analysis.file_type))
    IN  header_data \o LE64(Crc64(header_data))

\* rmp_serde::to_vec: the variant, then its fields
RECURSIVE serialize_algorithm(_)
serialize_algorithm(algorithm) ==
    <<129, get_algorithm_id(algorithm) % 256>> \o
    (CASE algorithm.tag = "Store" -> <<144 + Len(algorithm.transformations)>>
       [] algorithm.tag = "Zstd" ->
            <<algorithm.level, IF algorithm.dictionary THEN 195 ELSE 194,
              algorithm.window_size, algorithm.workers>>
       [] algorithm.tag = "Lz4" -> <<algorithm.acceleration>>
       [] algorithm.tag = "Snappy" -> <<IF algorithm.variant = "Framed" THEN 1 ELSE 0>>
       [] algorithm.tag = "Deflate" -> <<algorithm.level, algorithm.window_bits>>
       [] algorithm.tag = "Brotli" -> <<algorithm.quality, algorithm.window_size>>
       [] algorithm.tag = "Lzma" -> <<algorithm.preset>>
       [] algorithm.tag = "HybridText" ->
            serialize_algorithm(algorithm.primary) \o serialize_algorithm(algorithm.secondary)
       [] algorithm.tag = "HybridBinary" ->
            serialize_algorithm(algorithm.fast_algo) \o serialize_algorithm(algorithm.slow_algo)
       [] OTHER -> <<>>)

\* chunk_offsets of write_compressed_chunks: the offset of chunk i (1-based)
RECURSIVE ChunkOffsets(_, _)
ChunkOffsets(chunks, current_offset) ==
    IF chunks = <<>> THEN <<>>
    ELSE <<current_offset>> \o ChunkOffsets(Tail(chunks), current_offset + 4 + Len(Head(chunks)))

\* the bytes written, and the total_size returned
\* faulty variant of write_compressed_chunks: no chunk index
write_compressed_chunks_without_index(chunks, algorithm) ==
    LET algorithm_data == serialize_algorithm(algorithm)
    IN  [bytes |-> LE32(Len(algorithm_data)) \o algorithm_data \o LE32(Len(chunks))
                   \o Flatten([i \in 1..Len(chunks) |-> LE32(Len(chunks[i])) \o chunks[i]]),
         total_size |-> 8 + Len(algorithm_data)
                        + SumSeq([i \in 1..Len(chunks) |-> 4 + Len(chunks[i])])]

write_compressed_chunks(chunks, algorithm) ==
    LET algorithm_data == serialize_algorithm(algorithm)
        index_start_pos == 8 + Len(algorithm_data)
        chunk_offsets == ChunkOffsets(chunks, index_start_pos + Len(chunks) * 8)
    IN  [bytes |-> LE32(Len(algorithm_data)) \o algorithm_data \o LE32(Len(chunks))
                   \o Flatten([i \in 1..Len(chunks) |-> LE64(chunk_offsets[i])])
                   \o Flatten([i \in 1..Len(chunks) |-> LE32(Len(chunks[i])) \o chunks[i]]),
         total_size |-> 8 + Len(algorithm_data) + Len(chunks) * 8
                        + SumSeq([i \in 1..Len(chunks) |-> 4 + Len(chunks[i])])]

\* shard.resize(max_shard_size, 0)
Resize(shard, size) == [i \in 1..size |-> IF i <= Len(shard) THEN shard[i] ELSE 0]

\* ReedSolomon::encode: parity shard j over the equal-sized data shards
ParityShard(shards, j, size) ==
    [col \in 1..size |->
        SumSeq([i \in 1..Len(shards) |-> shards[i][col] * (i + j)]) % 256]

RECURSIVE ParityGroups(_, _, _)
ParityGroups(chunks, data_shards, parity_shards) ==
    IF chunks = <<>> THEN <<>>
    ELSE LET n == Min(data_shards, Len(chunks))
             chunk_group == SubSeq(chunks, 1, n)
             max_shard_size ==
                 CHOOSE m \in {Len(chunk_group[i]) : i \in 1..n} :
                     \A i \in 1..n : Len(chunk_group[i]) <= m
             data_shards_vec ==
                 [i \in 1..data_shards |->
                    Resize(IF i <= n THEN chunk_group[i] ELSE <<>>, max_shard_size)]
         IN  LE32(parity_shards)
             \o Flatten([j \in 1..parity_shards |->
                    LE32(max_shard_size) \o ParityShard(data_shards_vec, j, max_shard_size)])
             \o ParityGroups(SubSeq(chunks, n + 1, Len(chunks)), data_shards, parity_shards)

\* the bytes apply_error_correction appends
apply_error_correction(chunks, level) ==
    CASE level \in {"None", "Basic"} -> <<>>
      [] level = "Standard" ->
            ParityGroups(chunks, RS_DATA_SHARDS_STANDARD, RS_PARITY_SHARDS_STANDARD)
      [] level = "High" -> ParityGroups(chunks, RS_DATA_SHARDS_HIGH, RS_PARITY_SHARDS_HIGH)
      [] OTHER -> ParityGroups(chunks, RS_DATA_SHARDS_MAXIMUM, RS_PARITY_SHARDS_MAXIMUM)


\* ------------------------------------------------------------------- state
VARIABLES
    config,           \* EngineConfiguration
    algorithm_cache,  \* analysis hash -> descriptor
    now,              \* SystemTime::now(), seconds
    input,            \* the input path: [exists, is_file, data]
    parent_exists,    \* the output path's parent directory exists
    out,              \* the output path: [exists, data]
    options,          \* CompressionOptions of the caller
    pc,               \* position of compress_file_async
    call,             \* analysis and selected algorithm of the running call
    attempt,          \* perform_compression_with_recovery: attempts, what runs now
    writer,           \* BufWriter over the output file: bytes not yet flushed
    reader,           \* read task: [pos, chunk_id, done]
    produced,         \* plaintext chunks in the order the read task produced them
    chunk_chan,       \* bounded channel reader -> workers
    result_chan,      \* bounded channel workers -> collector
    working,          \* results held by workers between recv and send
    exited,           \* number of workers that left their loop
    collector,        \* [state, total_chunks, results, completed]
    chunks,           \* what compress_file_chunked handed to the writer
    result,           \* what compress_file returned last
    dec,              \* what decompress_file returned last
    runs,             \* the successful runs recorded so far
    policy,           \* one evaluation of determine_optimal_chunk_size
    modified,         \* metadata.modified() of the input path, seconds
    content_cache,    \* file hash -> analysis record
    analyzed,         \* what analyze_file returned last
    orphans,          \* workers left behind by failed compress_file_chunked calls
    internal_calls,   \* perform_compression_internal invocations of the running call
    progress,         \* the ProgressBar of the running call: [total, position]
    batch             \* compress_batch: [state, files, queue, running, results]

vars == << config, batch, codec_faults, internal_calls, progress, policy, modified, content_cache, analyzed, orphans, algorithm_cache, now, input, parent_exists,
           out, options, pc, call, attempt, writer, reader, produced, chunk_chan, result_chan, working, exited,
           collector, chunks, result, dec, runs >>

pipeline_vars == << reader, produced, chunk_chan, result_chan, working, exited,
                    collector >>

\* ------------------------------------------------------------------ inputs
ByteValues == {0, 65}

ByteStrings(n) == UNION {[1..k -> ByteValues] : k \in 0..n}

RegularFile(data) == [exists |-> TRUE, is_file |-> TRUE, data |-> data]

Inputs ==
    {RegularFile(d) : d \in ByteStrings(MaxFileLen)}
    \cup {RegularFile(<<255, 216, 255>>), RegularFile(<<31, 139, 8>>)}
    \cup {[exists |-> FALSE, is_file |-> FALSE, data |-> <<>>],
          [exists |-> TRUE, is_file |-> FALSE, data |-> <<>>]}

\* impl Default for CompressionOptions
DefaultOptions ==
    [algorithm |-> None, optimization_target |-> "Balanced",
     chunk_size |-> CHUNK_SIZE_MEDIUM, enable_dictionary |-> TRUE,
     enable_neural |-> FALSE, enable_gpu |-> FALSE,
     error_correction_level |-> "Standard"]

ZstdLevel3 == Zstd(3, FALSE, FALSE, 22, "Fast", 1)

ExplicitAlgorithms ==
    { Store(<<>>), ZstdLevel3,
      Lz4("Standard", 1, "Max64KB", FALSE, TRUE),
      HybridText(Deflate(6, "Default", 15, 4), Snappy("Raw", FALSE), None, 1050, 1024),
      HybridBinary(Lz4("Standard", 1, "Max64KB", FALSE, TRUE), ZstdLevel3, 2, 700),
      Lzma(6, 1024) }

OptionSet ==
    {[DefaultOptions EXCEPT !.algorithm = a] : a \in ExplicitAlgorithms}
    \cup {[DefaultOptions EXCEPT !.optimization_target = t] :
            t \in {"Speed", "Ratio", "Memory", "Balanced"}}
    \cup {[DefaultOptions EXCEPT !.chunk_size = 2 * CHUNK_SIZE_MEDIUM],
          [DefaultOptions EXCEPT !.error_correction_level = "None"],
          [DefaultOptions EXCEPT !.enable_neural = TRUE]}

\* EngineConfiguration with a 64 MiB memory limit
Config(max_threads) ==
    [max_threads |-> max_threads, memory_limit |-> 64 * 1024,
     enable_neural |-> FALSE, enable_gpu |-> FALSE]

NoResult == [status |-> "none"]

EmptyCache == [k \in {} |-> None]

IdlePipeline ==
    /\ reader = [pos |-> 0, chunk_id |-> 0, done |-> FALSE]
    /\ produced = <<>>
    /\ chunk_chan = <<>>
    /\ result_chan = <<>>
    /\ working = {}
    /\ exited = 0
    /\ collector = [state |-> "idle", total_chunks |-> 0, results |-> <<>>, completed |-> 0]

\* no evaluation of the chunk-size policy yet
\* compress_batch has not been called
NoBatch == [state |-> "none", files |-> <<>>, queue |-> <<>>, running |-> {},
            results |-> <<>>]

\* no ProgressBar has been created
NoProgress == [total |-> 0, position |-> 0]

NoPolicy == [file_size |-> 0, algorithm |-> None, chunk_size |-> 0]

InitWithFaults(inputs, option_set, fault_sets) ==
    /\ config \in {Config(t) : t \in 1..MaxThreads}
    /\ codec_faults \in fault_sets
    /\ policy = NoPolicy
    /\ modified = 0
    /\ content_cache = EmptyCache
    /\ analyzed = NoResult
    /\ orphans = <<>>
    /\ internal_calls = 0
    /\ progress = NoProgress
    /\ batch = NoBatch
    /\ algorithm_cache = EmptyCache
    /\ now = 0
    /\ input \in inputs
    /\ parent_exists \in BOOLEAN
    /\ out = [exists |-> FALSE, data |-> <<>>]
    /\ options \in option_set
    /\ pc = "idle"
    /\ call = [analysis |-> None, algorithm |-> None]
    /\ attempt = [attempts |-> 0, mode |-> "first", algorithm |-> None, chunk_size |-> 0]
    /\ writer = <<>>
    /\ IdlePipeline
    /\ chunks = <<>>
    /\ result = NoResult
    /\ dec = NoResult
    /\ runs = <<>>

\* every codec works
InitWith(inputs, option_set) == InitWithFaults(inputs, option_set, {{}})

Init == InitWith(Inputs, OptionSet)


\* ----------------------------------------------------------------- actions
\* file_info.size (analyze_input_file), in KiB
FileSizeKiB == Len(input.data) \div 1024

\* faulty variant: four slots per thread
ChannelCapacityFourPerThread == config.max_threads * 4

\* bounded(max_threads * 2)
ChannelCapacity == config.max_threads * 2

should_use_dictionary(algorithm, analysis) ==
    /\ algorithm.tag = "Zstd"
    /\ algorithm.dictionary
    /\ (analysis.file_type.class = "Text" \/ analysis.repetition_score > 500)

\* None below 4 * MAX_DICTIONARY_SIZE, else the trained dictionary
train_dictionary_advanced(file_size) ==
    IF file_size < MAX_DICTIONARY_SIZE * 4 THEN None ELSE [tag |-> "Dictionary"]

Dictionary ==
    IF should_use_dictionary(attempt.algorithm, call.analysis)
    THEN train_dictionary_advanced(FileSizeKiB)
    ELSE None

\* create_progress_bar: a bar of the given length at position 0
create_progress_bar(total) == [total |-> total, position |-> 0]

\* ProgressBar::finish: the position is set to the length
finish(bar) == [bar EXCEPT !.position = bar.total]

\* compress_file_async up to the call of perform_compression_with_recovery
CompressFile ==
    /\ pc = "idle"
    /\ LET v == validate_compression_inputs(input, parent_exists, options, config)
       IN  /\ parent_exists' = v.parent_exists
           /\ IF ~v.result.ok
              THEN /\ result' = [status |-> "err", kind |-> v.result.kind]
                   /\ UNCHANGED << pc, call, attempt, algorithm_cache, progress >>
              ELSE LET a == analyze_content_detailed(
                                SubSeq(input.data, 1,
                                       Min(DETECTION_SAMPLE_SIZE * 1024, Len(input.data))))
                   IN  IF ~a.ok
                       THEN /\ result' = [status |-> "err", kind |-> a.kind]
                            /\ UNCHANGED << pc, call, attempt, algorithm_cache, progress >>
                       ELSE LET sel == select_optimal_algorithm(
                                           algorithm_cache, a.analysis, options,
                                           config.max_threads)
                            IN  /\ algorithm_cache' = sel.cache
                                /\ call' = [analysis |-> a.analysis,
                                            algorithm |-> sel.algorithm]
                                /\ attempt' = [attempts |-> 0, mode |-> "first",
                                               algorithm |-> sel.algorithm,
                                               chunk_size |-> 0]
                                /\ progress' = create_progress_bar(Len(input.data))
                                /\ result' = NoResult
                                /\ pc' = "attempt"
    /\ internal_calls' = 0
    /\ dec' = NoResult
    /\ UNCHANGED << config, batch, codec_faults, policy, modified, content_cache, analyzed, orphans, now, input, out, options, writer, pipeline_vars, chunks, runs >>

\* the fallback descriptor of perform_compression_with_recovery
fallback_algorithm == Zstd(3, FALSE, FALSE, 22, "Fast", 1)

\* perform_compression_with_recovery and compress_file_async after a failed
\* perform_compression_internal: the next attempt, or the error returned
AfterFailure(e) ==
    IF attempt.mode = "first"
    THEN IF is_recoverable(e) /\ attempt.attempts < 3 - 1
         THEN [retry |-> TRUE,
               attempt |-> [attempts |-> attempt.attempts + 1,
                            mode |-> CASE e.kind = "Memory" -> "retry_memory"
                                       [] e.kind = "Algorithm" -> "retry_algorithm"
                                       [] OTHER -> "first",
                            algorithm |-> IF e.kind = "Algorithm" THEN fallback_algorithm
                                          ELSE call.algorithm,
                            chunk_size |-> 0]]
         ELSE [retry |-> FALSE,
               kind |-> IF is_recoverable(e) THEN "FeatureUnavailable" ELSE e.kind]
    ELSE [retry |-> TRUE,
          attempt |-> [attempts |-> attempt.attempts, mode |-> "first",
                       algorithm |-> call.algorithm, chunk_size |-> 0]]

\* perform_compression_internal returned Err(e): what its callers do with it
FailAttempt(e) ==
    LET next == AfterFailure(e)
    IN  IF next.retry
        THEN /\ attempt' = next.attempt
             /\ pc' = "attempt"
             /\ UNCHANGED << result, progress >>
        ELSE /\ result' = [status |-> "err", kind |-> next.kind]
             /\ pc' = "idle"
             /\ progress' = finish(progress)
             /\ UNCHANGED attempt

\* perform_compression_internal up to the spawn of the workers and the read task
BeginInternal ==
    /\ pc = "attempt"
    /\ IF ~input.exists
       THEN \* File::open(&file_info.path) fails
            /\ FailAttempt(Err("Io", FALSE))
            /\ UNCHANGED << out, writer, pipeline_vars, chunks >>
       ELSE /\ attempt' = [attempt EXCEPT
                             !.chunk_size = determine_optimal_chunk_size(
                                                FileSizeKiB, attempt.algorithm)]
            /\ out' = [exists |-> TRUE, data |-> <<>>]
            /\ writer' = write_file_header(attempt.algorithm, call.analysis, now)
            /\ reader' = [pos |-> 0, chunk_id |-> 0, done |-> FALSE]
            /\ produced' = <<>>
            /\ chunk_chan' = <<>>
            /\ result_chan' = <<>>
            /\ working' = {}
            /\ exited' = 0
            /\ collector' = [state |-> "await_read", total_chunks |-> 0,
                             results |-> <<>>, completed |-> 0]
            /\ chunks' = <<>>
            /\ pc' = "pipeline"
            /\ UNCHANGED << result, progress >>
    /\ internal_calls' = internal_calls + 1
    /\ UNCHANGED << config, batch, codec_faults, policy, modified, content_cache, analyzed, orphans, algorithm_cache, now, input,
                    parent_exists, options, call, dec, runs >>

\* read task: one read of up to chunk_size bytes, and the send of the chunk
ReaderRead ==
    /\ pc = "pipeline"
    /\ ~reader.done
    /\ reader.pos < Len(input.data)
    /\ Len(chunk_chan) < ChannelCapacity
    /\ \E bytes_read \in 1..Min(attempt.chunk_size * 1024, Len(input.data) - reader.pos) :
          LET chunk_data == SubSeq(input.data, reader.pos + 1, reader.pos + bytes_read)
          IN  /\ chunk_chan' = Append(chunk_chan, [chunk_id |-> reader.chunk_id,
                                                    data |-> chunk_data])
              /\ produced' = Append(produced, chunk_data)
              /\ reader' = [reader EXCEPT !.pos = reader.pos + bytes_read,
                                          !.chunk_id = reader.chunk_id + 1]
    /\ UNCHANGED << config, batch, codec_faults, internal_calls, progress, policy, modified, content_cache, analyzed, orphans, algorithm_cache, now, input,
                    parent_exists, out, options, pc,
                    call, attempt, writer, result_chan, working, exited, collector,
                    chunks, result, dec, runs >>

\* read task: the read that returns 0 bytes; the sender is dropped
ReaderFinish ==
    /\ pc = "pipeline"
    /\ ~reader.done
    /\ reader.pos = Len(input.data)
    /\ reader' = [reader EXCEPT !.done = TRUE]
    /\ UNCHANGED << config, batch, codec_faults, internal_calls, progress, policy, modified, content_cache, analyzed, orphans, algorithm_cache, now, input,
                    parent_exists, out, options, pc,
                    call, attempt, writer, produced, chunk_chan, result_chan, working,
                    exited, collector, chunks, result, dec, runs >>

\* worker: chunk_receiver.recv() and the codec call
WorkerRecv ==
    /\ pc = "pipeline"
    /\ chunk_chan # <<>>
    /\ Cardinality(working) + exited < config.max_threads
    /\ LET item == Head(chunk_chan)
       IN  working' = working \cup
               {[chunk_id |-> item.chunk_id,
                 result |-> compress_chunk_with_algorithm(
                                item.data, attempt.algorithm, Dictionary, item.chunk_id)]}
    /\ chunk_chan' = Tail(chunk_chan)
    /\ UNCHANGED << config, batch, codec_faults, internal_calls, progress, policy, modified, content_cache, analyzed, orphans, algorithm_cache, now, input,
                    parent_exists, out, options, pc,
                    call, attempt, writer, reader, produced, result_chan, exited,
                    collector, chunks, result, dec, runs >>

\* worker: result_sender.send()
WorkerSend ==
    /\ pc = "pipeline"
    /\ Len(result_chan) < ChannelCapacity
    /\ \E item \in working :
          /\ result_chan' = Append(result_chan, item)
          /\ working' = working \ {item}
    /\ UNCHANGED << config, batch, codec_faults, internal_calls, progress, policy, modified, content_cache, analyzed, orphans, algorithm_cache, now, input,
                    parent_exists, out, options, pc,
                    call, attempt, writer, reader, produced, chunk_chan, exited,
                    collector, chunks, result, dec, runs >>

\* worker: recv() on the closed, drained channel ends the loop
WorkerExit ==
    /\ pc = "pipeline"
    /\ reader.done
    /\ chunk_chan = <<>>
    /\ Cardinality(working) + exited < config.max_threads
    /\ exited' = exited + 1
    /\ UNCHANGED << config, batch, codec_faults, internal_calls, progress, policy, modified, content_cache, analyzed, orphans, algorithm_cache, now, input,
                    parent_exists, out, options, pc,
                    call, attempt, writer, reader, produced, chunk_chan, result_chan,
                    working, collector, chunks, result, dec, runs >>

\* compress_file_chunked: read_handle.await, then vec![None; total_chunks]
AwaitRead ==
    /\ pc = "pipeline"
    /\ collector.state = "await_read"
    /\ reader.done
    /\ collector' = [state |-> "collect", total_chunks |-> reader.chunk_id,
                     results |-> [i \in 1..reader.chunk_id |-> None], completed |-> 0]
    /\ UNCHANGED << config, batch, codec_faults, internal_calls, progress, policy, modified, content_cache, analyzed, orphans, algorithm_cache, now, input,
                    parent_exists, out, options, pc,
                    call, attempt, writer, reader, produced, chunk_chan, result_chan,
                    working, exited, chunks, result, dec, runs >>

\* what the error return of compress_file_chunked leaves behind: the chunks still
\* queued on the closed chunk channel, the workers that hold a result to send,
\* and all the workers that have not left their loop
Orphaned ==
    [queue |-> Len(chunk_chan), holding |-> Cardinality(working),
     running |-> config.max_threads - exited]

\* faulty variant of Collect: results are stored in the order they arrive
CollectInArrivalOrder ==
    /\ pc = "pipeline"
    /\ collector.state = "collect"
    /\ collector.completed < collector.total_chunks
    /\ result_chan # <<>>
    /\ LET item == Head(result_chan)
       IN  IF item.result.ok
           THEN /\ UNCHANGED orphans
                /\ progress' = [progress EXCEPT !.position = @ + 1]
                /\ collector' = [collector EXCEPT
                                   !.results[collector.completed + 1] = item.result,
                                   !.completed = collector.completed + 1]
                /\ UNCHANGED << pc, attempt, result >>
           ELSE LET next == AfterFailure(item.result)
                IN  /\ orphans' = Append(orphans, Orphaned)
                    /\ collector' = [collector EXCEPT !.state = "failed"]
                    /\ IF next.retry
                       THEN /\ attempt' = next.attempt
                            /\ pc' = "attempt"
                            /\ UNCHANGED << result, progress >>
                       ELSE /\ result' = [status |-> "err", kind |-> next.kind]
                            /\ pc' = "idle"
                            /\ progress' = finish(progress)
                            /\ UNCHANGED attempt
    /\ result_chan' = Tail(result_chan)
    /\ UNCHANGED << config, batch, codec_faults, internal_calls, policy, modified, content_cache, analyzed, algorithm_cache, now, input,
                    parent_exists, out, options,
                    call, writer, reader, produced, chunk_chan, working, exited, chunks,
                    dec, runs >>

\* compress_file_chunked: one result_receiver.recv() of the collection loop
Collect ==
    /\ pc = "pipeline"
    /\ collector.state = "collect"
    /\ collector.completed < collector.total_chunks
    /\ result_chan # <<>>
    /\ LET item == Head(result_chan)
       IN  IF item.result.ok
           THEN /\ UNCHANGED orphans
                /\ progress' = [progress EXCEPT !.position = @ + 1]
                /\ collector' = [collector EXCEPT
                                   !.results[item.chunk_id + 1] = item.result,
                                   !.completed = collector.completed + 1]
                /\ UNCHANGED << pc, attempt, result >>
           ELSE LET next == AfterFailure(item.result)
                IN  /\ orphans' = Append(orphans, Orphaned)
                    /\ collector' = [collector EXCEPT !.state = "failed"]
                    /\ IF next.retry
                       THEN /\ attempt' = next.attempt
                            /\ pc' = "attempt"
                            /\ UNCHANGED << result, progress >>
                       ELSE /\ result' = [status |-> "err", kind |-> next.kind]
                            /\ pc' = "idle"
                            /\ progress' = finish(progress)
                            /\ UNCHANGED attempt
    /\ result_chan' = Tail(result_chan)
    /\ UNCHANGED << config, batch, codec_faults, internal_calls, policy, modified, content_cache, analyzed, algorithm_cache, now, input,
                    parent_exists, out, options,
                    call, writer, reader, produced, chunk_chan, working, exited, chunks,
                    dec, runs >>

\* faulty variant of ExtractChunks: the loop stops one slot early
ExtractChunksButLast(results) ==
    [i \in 1..(Len(results) - 1) |-> results[i].frame]

\* the Some entries of results, in index order
RECURSIVE ExtractChunks(_)
ExtractChunks(results) ==
    IF results = <<>> THEN <<>>
    ELSE (IF Head(results) = None THEN <<>> ELSE <<Head(results).frame>>)
         \o ExtractChunks(Tail(results))

\* create_enhanced_metadata, reduced to the fields derived from the run
create_enhanced_metadata(file_size, compressed_size, chunk_count, algorithm) ==
    [format_version |-> VERSION, min_reader_version |-> MIN_SUPPORTED_VERSION,
     algorithm |-> algorithm, original_size |-> file_size,
     compressed_size |-> compressed_size, chunk_count |-> chunk_count]

\* compress_file_chunked after the collection loop (join, extraction), then the rest
\* of perform_compression_internal and of compress_file_async
FinishInternalWith(record) ==
    /\ pc = "pipeline"
    /\ collector.state = "collect"
    /\ collector.completed = collector.total_chunks
    /\ exited = config.max_threads
    /\ LET extracted == ExtractChunks(collector.results)
           written == write_compressed_chunks(extracted, attempt.algorithm)
           parity == IF options.error_correction_level # "None"
                     THEN apply_error_correction(extracted, options.error_correction_level)
                     ELSE <<>>
           file == writer \o written.bytes \o parity
       IN  /\ chunks' = extracted
           /\ out' = [exists |-> TRUE, data |-> file]
           /\ IF input.exists
              THEN /\ result' = [status |-> "ok",
                                 metadata |-> create_enhanced_metadata(
                                     Len(input.data), written.total_size,
                                     Len(extracted), call.algorithm)]
                   /\ runs' = IF record
                              THEN Append(runs, [data |-> input.data,
                                                 algorithm |-> attempt.algorithm,
                                                 chunk_size |-> attempt.chunk_size,
                                                 max_threads |-> config.max_threads,
                                                 file |-> file])
                              ELSE runs
              ELSE \* create_enhanced_metadata: calculate_comprehensive_file_hash
                   \* cannot open the input path
                   /\ result' = [status |-> "err", kind |-> "Io"]
                   /\ UNCHANGED runs
    /\ writer' = <<>>
    /\ collector' = [collector EXCEPT !.state = "done"]
    /\ pc' = "idle"
    /\ progress' = finish(progress)
    /\ UNCHANGED << config, batch, codec_faults, internal_calls, policy, modified, content_cache, analyzed, orphans, algorithm_cache, now, input,
                    parent_exists, options, call, attempt, reader, produced, chunk_chan,
                    result_chan, working, exited, dec >>

FinishInternal == FinishInternalWith(FALSE)

\* ------------------------------------------------------------- decompress
validate_decompression_inputs(file) == [ok |-> TRUE]

read_and_validate_metadata(file) == Err("FeatureUnavailable", FALSE)

check_compatibility(metadata) == [ok |-> TRUE]

perform_decompression_with_recovery(file, metadata) == [ok |-> TRUE]

\* what decompress_file_async returns, and the bytes it wrote to its output path
decompress_file_async(file) ==
    LET metadata == read_and_validate_metadata(file)
    IN  IF ~validate_decompression_inputs(file).ok
        THEN [status |-> "err", kind |-> validate_decompression_inputs(file).kind,
              written |-> None]
        ELSE IF ~metadata.ok
        THEN [status |-> "err", kind |-> metadata.kind, written |-> None]
        ELSE IF ~check_compatibility(metadata).ok
        THEN [status |-> "err", kind |-> check_compatibility(metadata).kind,
              written |-> None]
        ELSE LET r == perform_decompression_with_recovery(file, metadata)
             IN  IF r.ok
                 THEN [status |-> "ok", metadata |-> metadata, written |-> None]
                 ELSE [status |-> "err",
                       kind |-> IF is_recoverable(r) THEN "FeatureUnavailable" ELSE r.kind,
                       written |-> None]

\* decompress_file on the output path of the last compress_file
DecompressFile ==
    /\ pc = "idle"
    /\ dec = NoResult
    /\ dec' = decompress_file_async(out)
    /\ UNCHANGED << config, batch, codec_faults, internal_calls, progress, policy, modified, content_cache, analyzed, orphans, algorithm_cache, now, input,
                    parent_exists, out, options, pc,
                    call, attempt, writer, pipeline_vars, chunks, result, runs >>

\* the wall clock advances between calls
Tick ==
    /\ pc = "idle"
    /\ now < MaxClock
    /\ now' = now + 1
    /\ UNCHANGED << config, batch, codec_faults, internal_calls, progress, policy, modified, content_cache, analyzed, orphans, algorithm_cache, input, parent_exists, out, options, pc, call,
                    attempt, writer, pipeline_vars, chunks, result, dec, runs >>

Next ==
    \/ CompressFile
    \/ BeginInternal
    \/ ReaderRead
    \/ ReaderFinish
    \/ WorkerRecv
    \/ WorkerSend
    \/ WorkerExit
    \/ AwaitRead
    \/ Collect
    \/ FinishInternal
    \/ DecompressFile

Spec == Init /\ [][Next]_vars


\* ------------------------------------------- selector calls on one engine
SelectorData == {<<65>>, <<0, 65>>, <<255, 216, 255>>}

SelectorAnalyses == {analyze_content_detailed(d).analysis : d \in SelectorData}

\* one call of select_optimal_algorithm with the caller's analysis and options
SelectCall ==
    /\ pc = "idle"
    /\ \E analysis \in SelectorAnalyses, o \in OptionSet :
          LET sel == select_optimal_algorithm(algorithm_cache, analysis, o,
                                              config.max_threads)
          IN  /\ options' = o
              /\ call' = [analysis |-> analysis, algorithm |-> sel.algorithm]
              /\ algorithm_cache' = sel.cache
    /\ UNCHANGED << config, batch, codec_faults, internal_calls, progress, policy, modified, content_cache, analyzed, orphans, now, input, parent_exists, out, pc, attempt, writer,
                    pipeline_vars, chunks, result, dec, runs >>

InitSel == InitWith({RegularFile(<<65>>)}, OptionSet)

NextSel == SelectCall

SpecSel == InitSel /\ [][NextSel]_vars

\* --------------------------------------- repeated runs, recorded in runs
MaxRuns == 2

RunInputs == {RegularFile(<<65>>), RegularFile(<<0, 65>>)}

RunOptions ==
    {[DefaultOptions EXCEPT !.algorithm = Store(<<>>)],
     [DefaultOptions EXCEPT !.error_correction_level = "None"]}

CompressFileAgain == Len(runs) < MaxRuns /\ CompressFile

FinishInternalRecorded == FinishInternalWith(TRUE)

\* EnterpriseCompressionEngine::new with another max_threads
NewEngine ==
    /\ pc = "idle"
    /\ \E t \in 1..MaxThreads :
          /\ t # config.max_threads
          /\ config' = Config(t)
    /\ algorithm_cache' = EmptyCache
    /\ UNCHANGED << batch, codec_faults, internal_calls, progress, policy, modified, content_cache, analyzed, orphans, now, input, parent_exists, out, options, pc, call,
                    attempt, writer,
                    pipeline_vars, chunks, result, dec, runs >>

InitRuns == InitWith(RunInputs, RunOptions)

NextRuns ==
    \/ CompressFileAgain
    \/ BeginInternal
    \/ ReaderRead
    \/ ReaderFinish
    \/ WorkerRecv
    \/ WorkerSend
    \/ WorkerExit
    \/ AwaitRead
    \/ Collect
    \/ FinishInternalRecorded
    \/ Tick
    \/ NewEngine

SpecRuns == InitRuns /\ [][NextRuns]_vars


\* ------------------------------- a written container is damaged, then read
TamperInputs == {RegularFile(<<65>>), RegularFile(<<0, 65>>)}

TamperOptions ==
    {[DefaultOptions EXCEPT !.algorithm = Store(<<>>)],
     [DefaultOptions EXCEPT !.algorithm = ZstdLevel3, !.error_correction_level = "None"]}

\* the byte with one of its eight bits inverted
FlipBit(byte, bit) ==
    IF (byte \div Pow2(bit)) % 2 = 1 THEN byte - Pow2(bit) ELSE byte + Pow2(bit)

CompressFileOnce == runs = <<>> /\ CompressFile

\* something outside the engine inverts one bit of the container last written
TamperOutput ==
    /\ pc = "idle"
    /\ dec = NoResult
    /\ runs # <<>>
    /\ out.data = runs[Len(runs)].file
    /\ \E pos \in 1..Len(out.data), bit \in 0..7 :
          out' = [out EXCEPT !.data[pos] = FlipBit(out.data[pos], bit)]
    /\ UNCHANGED << config, batch, codec_faults, internal_calls, progress, policy, modified, content_cache, analyzed, orphans, algorithm_cache, now, input,
                    parent_exists, options, pc, call, attempt, writer, pipeline_vars,
                    chunks, result, dec, runs >>

InitTamper == InitWith(TamperInputs, TamperOptions)

NextTamper ==
    \/ CompressFileOnce
    \/ BeginInternal
    \/ ReaderRead
    \/ ReaderFinish
    \/ WorkerRecv
    \/ WorkerSend
    \/ WorkerExit
    \/ AwaitRead
    \/ Collect
    \/ FinishInternalRecorded
    \/ TamperOutput
    \/ DecompressFile

SpecTamper == InitTamper /\ [][NextTamper]_vars

\* ------------------------------------- failing codecs, a vanishing input
FaultInputs == {RegularFile(<<65>>), RegularFile(<<0, 65>>)}

FaultOptions ==
    {[DefaultOptions EXCEPT !.algorithm = Deflate(6, "Default", 15, 4)],
     [DefaultOptions EXCEPT
        !.algorithm = HybridText(Deflate(6, "Default", 15, 4), Snappy("Raw", FALSE),
                                 None, 1050, 1024)],
     [DefaultOptions EXCEPT !.algorithm = Store(<<>>),
                            !.error_correction_level = "None"]}

FaultSets == {{}, {"deflate"}, {"deflate", "zstd"}, {"deflate", "snappy"}}

CompressFileFirst == result = NoResult /\ CompressFile

\* something outside the engine removes the input path; a handle that is already
\* open still reads the data
RemoveInput ==
    /\ input.exists
    /\ input.is_file
    /\ input' = [input EXCEPT !.exists = FALSE]
    /\ UNCHANGED << config, batch, codec_faults, internal_calls, progress, policy, modified, content_cache, analyzed, orphans, algorithm_cache, now, parent_exists,
                    out, options, pc, call, attempt, writer, pipeline_vars, chunks,
                    result, dec, runs >>

InitFaults == InitWithFaults(FaultInputs, FaultOptions, FaultSets)

NextFaults ==
    \/ CompressFileFirst
    \/ BeginInternal
    \/ ReaderRead
    \/ ReaderFinish
    \/ WorkerRecv
    \/ WorkerSend
    \/ WorkerExit
    \/ AwaitRead
    \/ Collect
    \/ FinishInternal
    \/ RemoveInput

SpecFaults == InitFaults /\ [][NextFaults]_vars

\* ------------------------------------------- workers of a failed pipeline
\* After the error return the caller's ends of both channels are dropped: the
\* chunk channel is closed (the read task has finished) and still holds its
\* queue, the result channel has no receiver.
orphan_vars_unchanged ==
    UNCHANGED << config, batch, codec_faults, internal_calls, progress, policy, modified, content_cache, analyzed,
                 algorithm_cache, now, input, parent_exists, out, options, pc, call,
                 attempt, writer, pipeline_vars, chunks, result, dec, runs >>

\* faulty variant of OrphanSendFails: the result receiver is kept alive and
\* the send into the abandoned channel never returns
OrphanSendBlocks ==
    /\ FALSE
    /\ UNCHANGED orphans
    /\ orphan_vars_unchanged

\* a left-behind worker: recv() still returns a queued chunk, which it compresses
OrphanRecv ==
    /\ \E i \in DOMAIN orphans :
          /\ orphans[i].queue > 0
          /\ orphans[i].running - orphans[i].holding > 0
          /\ orphans' = [orphans EXCEPT ![i].queue = @ - 1, ![i].holding = @ + 1]
    /\ orphan_vars_unchanged

\* a left-behind worker: result_sender.send() is_err(), the loop breaks
OrphanSendFails ==
    /\ \E i \in DOMAIN orphans :
          /\ orphans[i].holding > 0
          /\ orphans' = [orphans EXCEPT ![i].holding = @ - 1, ![i].running = @ - 1]
    /\ orphan_vars_unchanged

\* a left-behind worker: recv() on the closed, drained channel ends the loop
OrphanExit ==
    /\ \E i \in DOMAIN orphans :
          /\ orphans[i].queue = 0
          /\ orphans[i].running - orphans[i].holding > 0
          /\ orphans' = [orphans EXCEPT ![i].running = @ - 1]
    /\ orphan_vars_unchanged

AbandonOptions ==
    {[DefaultOptions EXCEPT !.algorithm = Deflate(6, "Default", 15, 4),
                            !.error_correction_level = "None"]}

\* a file of up to three chunks whose first codec fails and whose fallback
\* works, or a file of one chunk for which the fallback fails as well
InitAbandon ==
    \/ InitWithFaults({RegularFile(<<0, 65, 65>>)}, AbandonOptions, {{"deflate"}})
    \/ InitWithFaults({RegularFile(<<65>>)}, AbandonOptions, {{"deflate", "zstd"}})

NextAbandon ==
    \/ CompressFileFirst
    \/ BeginInternal
    \/ ReaderRead
    \/ ReaderFinish
    \/ WorkerRecv
    \/ WorkerSend
    \/ WorkerExit
    \/ AwaitRead
    \/ Collect
    \/ FinishInternal
    \/ OrphanRecv
    \/ OrphanSendFails
    \/ OrphanExit

\* the pool threads that run the left-behind workers keep being scheduled
SpecAbandon ==
    /\ InitAbandon
    /\ [][NextAbandon]_vars
    /\ WF_vars(OrphanRecv)
    /\ WF_vars(OrphanSendFails)
    /\ WF_vars(OrphanExit)

\* ------------------------------------------- the chunk-size policy alone
\* file sizes in KiB, around and between the thresholds
PolicyFileSizes ==
    {0, 1, 1024, 4 * 1024, 16 * 1024 - 1, 16 * 1024, 16 * 1024 + 1, 20 * 1024,
     32 * 1024, 64 * 1024, 256 * 1024, 1024 * 1024 - 1, 1024 * 1024, 1024 * 1024 + 1,
     4 * 1024 * 1024, 16 * 1024 * 1024, 16 * 1024 * 1024 + 1, 32 * 1024 * 1024}

PolicyAlgorithms ==
    { Store(<<>>), ZstdLevel3,
      Lz4("Standard", 1, "Max64KB", FALSE, TRUE),
      Snappy("Framed", FALSE),
      Deflate(6, "Default", 15, 4),
      Brotli(11, 24, "Text", TRUE, FALSE),
      Lzma(6, 1024),
      [tag |-> "Xz"],
      NeuralCompression("Transformer", 500) }

\* one evaluation of determine_optimal_chunk_size
ChunkPolicyCall ==
    /\ \E file_size \in PolicyFileSizes, algorithm \in PolicyAlgorithms :
          policy' = [file_size |-> file_size, algorithm |-> algorithm,
                     chunk_size |-> determine_optimal_chunk_size(file_size, algorithm)]
    /\ UNCHANGED << config, batch, codec_faults, internal_calls, progress, modified, content_cache, analyzed, orphans,
                    algorithm_cache, now, input, parent_exists,
                    out, options, pc, call, attempt, writer, pipeline_vars, chunks,
                    result, dec, runs >>

InitPolicy == InitWith({RegularFile(<<65>>)}, {DefaultOptions})

NextPolicy == ChunkPolicyCall

SpecPolicy == InitPolicy /\ [][NextPolicy]_vars

\* ------------------------------------------- Store descriptors of the caller
StoreInputs ==
    {RegularFile(<<65>>), RegularFile(<<0, 65>>), RegularFile(<<65, 65, 65>>),
     RegularFile(<<65, 0, 0>>)}

\* Store with no transformation, with each implemented one, and with two
StoreOptions ==
    {[DefaultOptions EXCEPT !.algorithm = Store(t)] :
        t \in { <<>>, << [tag |-> "Rle"] >>, << [tag |-> "ByteSwap"] >>,
                << [tag |-> "Delta", distance |-> 1] >>,
                << [tag |-> "ByteSwap"], [tag |-> "Rle"] >> }}

InitStore == InitWith(StoreInputs, StoreOptions)

SpecStore == InitStore /\ [][Next]_vars

\* ------------------------------------------- analyze_file on a changing file
\* contents the file at the input path takes
AnalyzeContents == ByteStrings(2)

\* the u64 of calculate_file_hash_fast for the one input path: the hashed
\* length and modification time themselves
calculate_file_hash_fast(file, mtime) == << Len(file.data), mtime >>

\* what analysing the current contents of the input path produces
FreshAnalysis ==
    LET a == analyze_content_detailed(
                SubSeq(input.data, 1, Min(DETECTION_SAMPLE_SIZE * 1024, Len(input.data))))
    IN  IF a.ok THEN [status |-> "ok", analysis |-> a.analysis]
        ELSE [status |-> "err", kind |-> a.kind]

\* analyze_file_async
AnalyzeFile ==
    /\ pc = "idle"
    /\ LET file_hash == calculate_file_hash_fast(input, modified)
       IN  IF file_hash \in DOMAIN content_cache
           THEN /\ analyzed' = [status |-> "ok", analysis |-> content_cache[file_hash]]
                /\ UNCHANGED content_cache
           ELSE /\ analyzed' = FreshAnalysis
                /\ content_cache' =
                      IF FreshAnalysis.status = "ok"
                      THEN CacheInsert(content_cache, file_hash, FreshAnalysis.analysis)
                      ELSE content_cache
    /\ UNCHANGED << config, batch, codec_faults, internal_calls, progress, policy, modified, orphans, algorithm_cache, now, input,
                    parent_exists, out, options, pc, call, attempt, writer,
                    pipeline_vars, chunks, result, dec, runs >>

\* something outside the engine rewrites the input file; the file system
\* stamps it with the current time
ModifyFile ==
    /\ pc = "idle"
    /\ \E data \in AnalyzeContents \ {input.data} : input' = RegularFile(data)
    /\ modified' = now
    /\ UNCHANGED << config, batch, codec_faults, internal_calls, progress, policy, orphans, content_cache, analyzed,
                    algorithm_cache, now, parent_exists, out, options, pc, call,
                    attempt, writer, pipeline_vars, chunks, result, dec, runs >>

InitAnalyze ==
    InitWith({RegularFile(d) : d \in AnalyzeContents}, {DefaultOptions})

NextAnalyze ==
    \/ AnalyzeFile
    \/ ModifyFile
    \/ Tick

SpecAnalyze == InitAnalyze /\ [][NextAnalyze]_vars

\* ------------------------------------------- files of many chunks
\* a file the read task may deliver in up to seven chunks, and a short one
BackpressureInputs ==
    {RegularFile(<<65, 0, 65, 65, 0, 0, 65>>), RegularFile(<<65, 0>>)}

BackpressureOptions ==
    {[DefaultOptions EXCEPT !.algorithm = Store(<<>>),
                            !.error_correction_level = "None"]}

InitBackpressure == InitWith(BackpressureInputs, BackpressureOptions)

NextBackpressure ==
    \/ CompressFileFirst
    \/ BeginInternal
    \/ ReaderRead
    \/ ReaderFinish
    \/ WorkerRecv
    \/ WorkerSend
    \/ WorkerExit
    \/ AwaitRead
    \/ Collect
    \/ FinishInternal

\* the read task, the workers and the caller's task are all scheduled:
\* a step that stays possible is eventually taken
SpecBackpressure ==
    /\ InitBackpressure
    /\ [][NextBackpressure]_vars
    /\ WF_vars(BeginInternal)
    /\ WF_vars(ReaderRead)
    /\ WF_vars(ReaderFinish)
    /\ WF_vars(WorkerRecv)
    /\ WF_vars(WorkerSend)
    /\ WF_vars(WorkerExit)
    /\ WF_vars(AwaitRead)
    /\ WF_vars(Collect)
    /\ WF_vars(FinishInternal)

\* ------------------------------------------- engines with a small memory limit
\* memory limits of the engine configuration, KiB
MemoryLimits == {8 * 1024, 64 * 1024}

\* the caller asks for 1 MiB or 16 MiB chunks, with a fast codec or none
MemoryOptions ==
    {[DefaultOptions EXCEPT !.algorithm = a, !.chunk_size = c,
                            !.error_correction_level = "None"] :
        a \in {Store(<<>>), Lz4("Standard", 1, "Max64KB", FALSE, TRUE)},
        c \in {1024, CHUNK_SIZE_MEDIUM}}

InitMemory ==
    /\ config \in {[Config(t) EXCEPT !.memory_limit = l] :
                      t \in 1..MaxThreads, l \in MemoryLimits}
    /\ codec_faults = {}
    /\ policy = NoPolicy
    /\ modified = 0
    /\ content_cache = EmptyCache
    /\ analyzed = NoResult
    /\ orphans = <<>>
    /\ internal_calls = 0
    /\ progress = NoProgress
    /\ batch = NoBatch
    /\ algorithm_cache = EmptyCache
    /\ now = 0
    /\ input \in {RegularFile(<<65>>), RegularFile(<<0, 65>>)}
    /\ parent_exists \in BOOLEAN
    /\ out = [exists |-> FALSE, data |-> <<>>]
    /\ options \in MemoryOptions
    /\ pc = "idle"
    /\ call = [analysis |-> None, algorithm |-> None]
    /\ attempt = [attempts |-> 0, mode |-> "first", algorithm |-> None, chunk_size |-> 0]
    /\ writer = <<>>
    /\ IdlePipeline
    /\ chunks = <<>>
    /\ result = NoResult
    /\ dec = NoResult
    /\ runs = <<>>

SpecMemory == InitMemory /\ [][NextBackpressure]_vars

\* ------------------------------------------- compress_batch
WORKER_QUEUE_SIZE == 1000

\* the lists of input files a caller passes: a missing path and regular files
\* of three sizes
BatchFiles ==
    {[exists |-> FALSE, is_file |-> FALSE, data |-> <<>>],
     RegularFile(<<65>>), RegularFile(<<0, 65>>), RegularFile(<<65, 65, 65>>)}

MaxBatch == 3

BatchLists == UNION {[1..n -> BatchFiles] : n \in 1..MaxBatch}

\* metadata(input).map(|m| m.len()).unwrap_or(0)
SortKey(file) == IF file.exists THEN Len(file.data) ELSE 0

\* one insertion of the stable sort: i goes after every index whose key is
\* not larger
InsertByKey(sorted, i, files) ==
    LET before == {k \in 0..Len(sorted) :
                     \A j \in 1..k : SortKey(files[sorted[j]]) <= SortKey(files[i])}
        at == CHOOSE k \in before : \A l \in before : l <= k
    IN  SubSeq(sorted, 1, at) \o <<i>> \o SubSeq(sorted, at + 1, Len(sorted))

\* sorted_files.sort_by_key(..): the positions of files in the sorted order
RECURSIVE SortedUpTo(_, _)
SortedUpTo(files, n) ==
    IF n = 0 THEN <<>> ELSE InsertByKey(SortedUpTo(files, n - 1), n, files)

sort_by_key(files) == SortedUpTo(files, Len(files))

\* what compress_file_async returns for one file of the batch, whose output
\* path is its own
BatchOutcome(file) ==
    LET v == validate_compression_inputs(file, TRUE, options, config)
    IN  IF v.result.ok
        THEN [status |-> "ok", original_size |-> Len(file.data)]
        ELSE [status |-> "err", kind |-> v.result.kind]

batch_vars_unchanged ==
    UNCHANGED << config, codec_faults, internal_calls, progress, policy, modified,
                 content_cache, analyzed, orphans, algorithm_cache, now, input,
                 parent_exists, out, options, pc, call, attempt, writer,
                 pipeline_vars, chunks, result, dec, runs >>

\* compress_batch_async up to the stream
CompressBatch ==
    /\ batch.state = "none"
    /\ \E files \in BatchLists :
          batch' = [state |-> "running", files |-> files,
                    queue |-> sort_by_key(files), running |-> {},
                    results |-> <<>>]
    /\ batch_vars_unchanged

\* buffer_unordered(max_threads): the next future of the stream is started
BatchStart ==
    /\ batch.state = "running"
    /\ batch.queue # <<>>
    /\ Cardinality(batch.running) < config.max_threads
    /\ Cardinality(batch.running) < WORKER_QUEUE_SIZE
    /\ batch' = [batch EXCEPT !.queue = Tail(@),
                              !.running = @ \cup {Head(batch.queue)}]
    /\ batch_vars_unchanged

\* one of the futures in flight completes; its result is the next of the stream
BatchComplete ==
    /\ batch.state = "running"
    /\ batch.queue = <<>> \/ Cardinality(batch.running) = config.max_threads
    /\ \E i \in batch.running :
          batch' = [batch EXCEPT !.running = @ \ {i},
                                !.results = Append(@, BatchOutcome(batch.files[i]))]
    /\ batch_vars_unchanged

\* collect() is complete: compress_batch_async returns results
BatchReturn ==
    /\ batch.state = "running"
    /\ batch.queue = <<>>
    /\ batch.running = {}
    /\ batch' = [batch EXCEPT !.state = "returned"]
    /\ batch_vars_unchanged

InitBatch == InitWith({RegularFile(<<65>>)}, {DefaultOptions})

NextBatch ==
    \/ CompressBatch
    \/ BatchStart
    \/ BatchComplete
    \/ BatchReturn

SpecBatch == InitBatch /\ [][NextBatch]_vars

\* ------------------------------------------- the decision table alone
\* file types an analysis can carry; an Archive's subtype records whether
\* its properties say compression_used
TableFileTypes ==
    { FileType("Text", "PlainText"), FileType("Text", "SourceCode"),
      FileType("Binary", "none"), FileType("Image", "none"),
      FileType("Video", "none"), FileType("Audio", "none"),
      FileType("Archive", "compression_used"), FileType("Archive", "none"),
      FileType("Unknown", "none") }

\* entropies and compressibility scores in thousandths, on both sides of
\* every threshold of the table
TableEntropies == {0, 400, 500, 600, 890, 900, 950, 960, 1000}

TableScores == {0, 50, 100, 300, 310, 500, 510, 800, 810, 900, 950, 1000}

\* every combination, and the analyses whose score is the one
\* estimate_compressibility_advanced computes from the entropy and the type
TableAnalyses ==
    { Analysis(e, ft, 900, s) : e \in TableEntropies, ft \in TableFileTypes,
                                s \in TableScores }
    \cup { Analysis(e, ft, 900, CompressibilityOf(e, ft)) :
              e \in TableEntropies, ft \in TableFileTypes }

\* options.algorithm unset, every optimization target, neural on and off
TableOptions ==
    { [DefaultOptions EXCEPT !.optimization_target = t, !.enable_neural = n] :
          t \in {"Speed", "Ratio", "Memory", "Balanced"}, n \in BOOLEAN }

\* one evaluation of select_algorithm_neural_enhanced on the analysis at hand
DecisionTableCall ==
    /\ call.analysis # None
    /\ call.algorithm = None
    /\ options.algorithm = None
    /\ call' = [call EXCEPT !.algorithm =
                   select_algorithm_neural_enhanced(call.analysis, options,
                                                    config.max_threads)]
    /\ UNCHANGED << config, batch, codec_faults, internal_calls, progress, policy, modified, content_cache, analyzed, orphans, algorithm_cache, now, input,
                    parent_exists, out, options, pc, attempt, writer, pipeline_vars,
                    chunks, result, dec, runs >>

InitTable ==
    /\ config \in {Config(t) : t \in 1..MaxThreads}
    /\ codec_faults = {}
    /\ policy = NoPolicy
    /\ modified = 0
    /\ content_cache = EmptyCache
    /\ analyzed = NoResult
    /\ orphans = <<>>
    /\ internal_calls = 0
    /\ progress = NoProgress
    /\ batch = NoBatch
    /\ algorithm_cache = EmptyCache
    /\ now = 0
    /\ input = RegularFile(<<65>>)
    /\ parent_exists = TRUE
    /\ out = [exists |-> FALSE, data |-> <<>>]
    /\ options \in TableOptions
    /\ pc = "idle"
    /\ call \in {[analysis |-> a, algorithm |-> None] : a \in TableAnalyses}
    /\ attempt = [attempts |-> 0, mode |-> "first", algorithm |-> None, chunk_size |-> 0]
    /\ writer = <<>>
    /\ IdlePipeline
    /\ chunks = <<>>
    /\ result = NoResult
    /\ dec = NoResult
    /\ runs = <<>>

NextTable == DecisionTableCall

SpecTable == InitTable /\ [][NextTable]_vars

\* ------------------------------------------------------------- properties
Succeeded == pc = "idle" /\ result.status = "ok"

\* the input is a regular, non-empty file and no unavailable feature is requested
ValidRequest ==
    /\ input.exists /\ input.is_file /\ Len(input.data) > 0
    /\ ~options.enable_neural /\ ~options.enable_gpu

\* a frame with its 12-byte header: bytes 4..8 hold the length of what follows it
FrameWellFormed(frame) ==
    /\ Len(frame) >= 12
    /\ U32At(frame, 5) = Len(frame) - 12

\* the offset after n length-prefixed frames that start at offset pos of file,
\* each prefix equal to the size of a well-formed frame; -1 if they are not there
RECURSIVE WalkFrames(_, _, _)
WalkFrames(file, pos, n) ==
    IF n = 0 THEN pos
    ELSE IF pos + 4 > Len(file) THEN -1
    ELSE LET len == U32At(file, pos + 1)
         IN  IF pos + 4 + len > Len(file) THEN -1
             ELSE IF ~FrameWellFormed(SubSeq(file, pos + 5, pos + 4 + len)) THEN -1
             ELSE WalkFrames(file, pos + 4 + len, n - 1)

\* size of the file header: magic, version tag, version, timestamp, two ids, CRC64
HeaderLen == Len(MAGIC_BYTES) + Len(MAGIC_VERSION) + 4 + 8 + 4 + 4 + 8

\* offset of the 4-byte chunk count: after the header and the descriptor block
ChunkCountPos(file) == HeaderLen + 4 + U32At(file, HeaderLen + 1)

ChunkCount(file) == U32At(file, ChunkCountPos(file) + 1)

\* C1: for a non-empty input and a descriptor the selector emits, compress_file
\* followed by decompress_file of the written file succeeds and restores the
\* input byte for byte.
C1_RoundTrip ==
    (Succeeded /\ dec.status # "none")
        => (dec.status = "ok" /\ dec.written = input.data)

\* C2: the frames handed to the writer are in increasing chunk-ID order, the
\* order in which the read task produced the plaintext chunks, whatever the
\* order in which the workers complete.
C2_WriterOrder ==
    /\ (pc = "pipeline" /\ collector.state = "collect") =>
          \A i \in 1..collector.total_chunks :
             collector.results[i] # None =>
                collector.results[i] =
                   compress_chunk_with_algorithm(produced[i], attempt.algorithm,
                                                 Dictionary, i - 1)
    /\ Succeeded =>
          /\ Len(chunks) = Len(produced)
          /\ \A i \in 1..Len(chunks) :
                chunks[i] = compress_chunk_with_algorithm(
                                produced[i], attempt.algorithm, Dictionary, i - 1).frame

\* chunk 1 was collected before chunk 0
C2_Witness ==
    /\ pc = "pipeline" /\ collector.state = "collect"
    /\ collector.total_chunks >= 2
    /\ collector.results[1] = None
    /\ collector.results[2] # None
    /\ produced[1] # produced[2]

\* C3: two runs on the same input bytes with the same descriptor and the same
\* chunk size write byte-identical files, whatever the time and max_threads.
C3_Determinism ==
    \A i, j \in DOMAIN runs :
       (/\ runs[i].data = runs[j].data
        /\ runs[i].algorithm = runs[j].algorithm
        /\ runs[i].chunk_size = runs[j].chunk_size)
       => runs[i].file = runs[j].file

\* C4: whenever options.algorithm is set, select_optimal_algorithm returns
\* exactly that descriptor, after any sequence of earlier calls on the engine.
C4_ExplicitAlgorithm ==
    (call.analysis # None /\ options.algorithm # None)
        => call.algorithm = options.algorithm

\* C5: select_optimal_algorithm returns what a freshly created engine returns
\* for the same (analysis, options), here for options without an explicit
\* descriptor (they differ in optimization target only).
C5_SelectorFunction ==
    (call.analysis # None /\ options.algorithm = None)
        => call.algorithm =
             select_optimal_algorithm(EmptyCache, call.analysis, options,
                                      config.max_threads).algorithm

\* C6: if chunk_size * thread_count * 3 > memory_limit, compress_file fails with
\* the memory error and the output file has not been created.
C6_MemoryCeiling ==
    (/\ ValidRequest
     /\ options.chunk_size * config.max_threads * 3 > config.memory_limit
     /\ (pc # "idle" \/ result.status # "none"))
    => (/\ pc = "idle"
        /\ result = [status |-> "err", kind |-> "Memory"]
        /\ ~out.exists)

\* C7: compress_file on a zero-length regular file fails with a Configuration
\* error.
C7_EmptyInput ==
    (/\ input.exists /\ input.is_file /\ Len(input.data) = 0
     /\ (pc # "idle" \/ result.status # "none"))
    => (pc = "idle" /\ result = [status |-> "err", kind |-> "Configuration"])

C7_Witness ==
    /\ input = RegularFile(<<>>)
    /\ options.enable_neural
    /\ result.status = "err"

C9_ChunkFraming ==
    /\ \A item \in working : item.result.ok => FrameWellFormed(item.result.frame)
    /\ \A i \in DOMAIN result_chan :
          result_chan[i].result.ok => FrameWellFormed(result_chan[i].result.frame)
    /\ \A i \in DOMAIN collector.results :
          collector.results[i] # None => FrameWellFormed(collector.results[i].frame)
    /\ \A i \in DOMAIN chunks : FrameWellFormed(chunks[i])

\* a hybrid descriptor wrote a frame whose payload is shorter or longer than
\* its plaintext
C9_Witness ==
    /\ Succeeded
    /\ attempt.algorithm.tag \in {"HybridText", "HybridBinary"}
    /\ \E i \in DOMAIN chunks : U32At(chunks[i], 1) # U32At(chunks[i], 5)

RECURSIVE PayloadPositionsFrom(_, _, _)
PayloadPositionsFrom(file, pos, n) ==
    IF n = 0 THEN {}
    ELSE LET len == U32At(file, pos + 1)
         IN  ((pos + 4 + 12 + 1)..(pos + 4 + len))
             \cup PayloadPositionsFrom(file, pos + 4 + len, n - 1)

PayloadPositions(file) ==
    PayloadPositionsFrom(file, ChunkCountPos(file) + 4 + 8 * ChunkCount(file),
                         ChunkCount(file))

\* the output file is the container of the recorded run but for the byte at p
DiffersOnlyAt(p) ==
    /\ runs # <<>>
    /\ Len(out.data) = Len(runs[1].file)
    /\ \A i \in 1..Len(out.data) : (out.data[i] # runs[1].file[i]) <=> (i = p)

\* C11: after one bit of the payload of a chunk frame of a written container is
\* flipped, decompress_file fails, and with IntegrityViolation or an Algorithm
\* error.
C11_TamperDetection ==
    (/\ dec.status # "none"
     /\ runs # <<>>
     /\ \E p \in PayloadPositions(runs[1].file) : DiffersOnlyAt(p))
    => (dec.status = "err" /\ dec.kind \in {"IntegrityViolation", "Algorithm"})

\* C12: decompress_file on a file whose first four bytes are not 'ENCS', or
\* whose version field is not the current format version, fails with
\* InvalidFormat.
C12_InvalidFormat ==
    (/\ dec.status # "none"
     /\ Len(out.data) >= 12
     /\ \/ SubSeq(out.data, 1, 4) # <<69, 78, 67, 83>>
        \/ U32At(out.data, 9) # VERSION)
    => (dec.status = "err" /\ dec.kind = "InvalidFormat")


\* C13: when a step of compress_file fails, the error returned to the caller has
\* the kind of the error the pipeline raised; here for the step in which the
\* collector receives a failed chunk and compress_file returns.
C13_ErrorPropagation ==
    [][(/\ collector.state = "collect"
        /\ collector'.state = "failed"
        /\ pc' = "idle")
       => (/\ result'.status = "err"
           /\ result'.kind = Head(result_chan).result.kind)]_vars

\* the name under which the codec of a descriptor reports its failure
CodecName(algorithm) ==
    CASE algorithm.tag = "Zstd" -> "zstd"
      [] algorithm.tag = "Snappy" -> "snappy"
      [] algorithm.tag = "Brotli" -> "brotli"
      [] algorithm.tag = "Deflate" -> "deflate"
      [] algorithm.tag = "NeuralCompression" -> "neural_simulation"
      [] OTHER -> "none"

\* the codec a descriptor invokes first on every chunk
FirstCodec(algorithm) ==
    IF algorithm.tag = "HybridText" THEN algorithm.primary ELSE algorithm

\* C14: if the codec invoked on the chunks fails, compress_file returns an
\* Algorithm error; it does not return success with chunks produced by another
\* codec.
C14_CodecFailureSurfaces ==
    (/\ pc = "idle"
     /\ result.status # "none"
     /\ input.exists
     /\ call.algorithm # None
     /\ CodecName(FirstCodec(call.algorithm)) \in codec_faults)
    => (result.status = "err" /\ result.kind = "Algorithm")

\* the file holds a header, a descriptor, a chunk count, its index and that many
\* well-formed frames
ValidContainer(file) ==
    /\ Len(file) >= HeaderLen + 4
    /\ SubSeq(file, 1, 4) = MAGIC_BYTES
    /\ ChunkCountPos(file) + 4 <= Len(file)
    /\ ChunkCountPos(file) + 4 + 8 * ChunkCount(file) <= Len(file)
    /\ WalkFrames(file, ChunkCountPos(file) + 4 + 8 * ChunkCount(file),
                  ChunkCount(file)) # -1

\* C15: whenever compress_file returns an error, the output path does not hold
\* a complete valid container.
C15_NoValidOutputOnFailure ==
    (pc = "idle" /\ result.status = "err")
        => ~(out.exists /\ ValidContainer(out.data))


\* C16 (as stated): the chunk size is 1 MiB for files of at most 16 MiB, 4 MiB
\* for files of at most 1 GiB and 16 MiB for larger files, whatever the
\* descriptor.
C16_Original ==
    policy.algorithm # None =>
        policy.chunk_size =
            (IF policy.file_size <= 16 * 1024 THEN 1024
             ELSE IF policy.file_size <= 1024 * 1024 THEN 4 * 1024
             ELSE 16 * 1024)

\* C16: the chunk size starts from 4 MiB for files of at most 16 MiB, 16 MiB up
\* to 1 GiB, 64 MiB up to 16 GiB and 256 MiB above; it is doubled for Lz4 and
\* Snappy, halved for Lzma and Xz, and 16 MiB for NeuralCompression; the result
\* is limited to a quarter of the file size and then raised to at least 4 MiB.
C16_ChunkSizePolicy ==
    policy.algorithm # None =>
        LET size == policy.file_size
            tag == policy.algorithm.tag
            base == IF size <= 16384 THEN 4096
                    ELSE IF size <= 1048576 THEN 16384
                    ELSE IF size <= 16777216 THEN 65536
                    ELSE 262144
            by_codec == IF tag \in {"Lz4", "Snappy"} THEN 2 * base
                        ELSE IF tag \in {"Lzma", "Xz"} THEN base \div 2
                        ELSE IF tag = "NeuralCompression" THEN 16384
                        ELSE base
            limited == IF by_codec <= size \div 4 THEN by_codec ELSE size \div 4
        IN  policy.chunk_size = (IF limited >= 4096 THEN limited ELSE 4096)

\* a file above 1 GiB with Lz4: 128 MiB chunks
C16_Witness ==
    /\ policy.algorithm # None
    /\ policy.algorithm.tag = "Lz4"
    /\ policy.file_size = 4 * 1024 * 1024
    /\ policy.chunk_size = 128 * 1024

\* C17 (as stated): for every file size and descriptor the chunk size is at
\* most 64 MiB.
C17_Original ==
    policy.algorithm # None => policy.chunk_size <= 64 * 1024

\* C17: for every file size and descriptor the chunk size is at most 512 MiB,
\* and at most the larger of 4 MiB and a quarter of the file size.
C17_ChunkSizeCap ==
    policy.algorithm # None =>
        /\ policy.chunk_size <= 512 * 1024
        /\ \/ policy.chunk_size <= 4 * 1024
           \/ 4 * policy.chunk_size <= policy.file_size

\* a file above 16 GiB with a fast codec: 512 MiB chunks
C17_Witness ==
    /\ policy.algorithm # None
    /\ policy.file_size > 16 * 1024 * 1024
    /\ policy.chunk_size = 512 * 1024


\* the decision table has been evaluated on the analysis at hand
TableCalled == call.analysis # None /\ call.algorithm # None /\ options.algorithm = None

\* C18 (as stated): with options.algorithm unset, for every analysis of class
\* Image or Archive the selector returns Store, whatever the target, the
\* entropy and the compressibility.
C18_Original ==
    (TableCalled /\ call.analysis.file_type.class \in {"Image", "Archive"})
        => call.algorithm = Store(<<>>)

\* C18: with options.algorithm unset, for an analysis of class Image the
\* selector returns Zstd level 6 when the compressibility is above 0.3,
\* otherwise Lz4 HighCompression when the entropy is below 0.9, otherwise Store;
\* for class Archive it returns Store when the archive is recorded as
\* compressed, otherwise Zstd at level 12 for Ratio and level 6 for the other
\* targets.
C18_MediaAndArchiveArms ==
    TableCalled =>
        LET analysis == call.analysis
            algorithm == call.algorithm
        IN  /\ analysis.file_type.class = "Image" =>
                  IF analysis.compressibility_score > 300
                  THEN algorithm.tag = "Zstd" /\ algorithm.level = 6
                  ELSE IF analysis.entropy < 900
                  THEN algorithm.tag = "Lz4" /\ algorithm.variant = "HighCompression"
                  ELSE algorithm = Store(<<>>)
            /\ analysis.file_type.class = "Archive" =>
                  IF analysis.file_type.subtype = "compression_used"
                  THEN algorithm = Store(<<>>)
                  ELSE /\ algorithm.tag = "Zstd"
                       /\ algorithm.level =
                             (IF options.optimization_target = "Ratio" THEN 12 ELSE 6)

\* an Image analysis of low entropy and low compressibility got Lz4
C18_Witness ==
    /\ TableCalled
    /\ call.analysis.file_type.class = "Image"
    /\ call.analysis.compressibility_score <= 300
    /\ call.analysis.entropy < 900
    /\ call.algorithm.tag = "Lz4"


\* C19: with options.algorithm unset, for every analysis with entropy above
\* 0.95 and compressibility below 0.1 whose class is neither Image nor Archive
\* the selector returns Store, for every optimization target; in particular an
\* analysis of unrecognised content (class Unknown) with entropy above 0.95,
\* whose compressibility is the one computed from that entropy, is stored.
C19_HighEntropyStored ==
    TableCalled =>
        LET analysis == call.analysis
        IN  /\ ( /\ analysis.entropy > 950
                 /\ analysis.compressibility_score < 100
                 /\ analysis.file_type.class \notin {"Image", "Archive"} )
                  => call.algorithm = Store(<<>>)
            /\ ( /\ analysis.entropy > 950
                 /\ analysis.file_type.class = "Unknown"
                 /\ analysis.compressibility_score =
                        CompressibilityOf(analysis.entropy, analysis.file_type) )
                  => call.algorithm = Store(<<>>)

\* unrecognised content of entropy 1.0 was stored under the Ratio target
C19_Witness ==
    /\ TableCalled
    /\ call.analysis.file_type.class = "Unknown"
    /\ call.analysis.entropy = 1000
    /\ call.analysis.compressibility_score = 0
    /\ options.optimization_target = "Ratio"
    /\ call.algorithm = Store(<<>>)


\* the descriptors of the default arms, by optimization target
TextByTarget(lz4_or_snappy, zstd_ratio_level, other_level) ==
    LET algorithm == call.algorithm
        target == options.optimization_target
    IN  CASE target = "Speed" -> lz4_or_snappy
          [] target = "Ratio" -> algorithm.tag = "Zstd" /\ algorithm.level = zstd_ratio_level
          [] target = "Memory" -> algorithm.tag = "Deflate" /\ algorithm.level = other_level
          [] OTHER -> algorithm.tag = "Zstd" /\ algorithm.level = other_level

\* C20 (as stated): with options.algorithm unset, for every analysis of class
\* Text with compressibility above 0.8 the selector returns Lz4 without high
\* compression for Speed, Zstd 15 for Ratio, Deflate 6 for Memory and Zstd 6
\* for Balanced, whatever the entropy.
C20_Original ==
    (TableCalled /\ call.analysis.file_type.class = "Text"
                 /\ call.analysis.compressibility_score > 800)
        => TextByTarget(call.algorithm.tag = "Lz4" /\ call.algorithm.variant = "Standard",
                        15, 6)

\* C20: with options.algorithm unset, for an analysis of class Text with
\* compressibility above 0.8: source code gets HybridText (Zstd 19, then
\* Brotli 11) for Ratio, Lz4 HighCompression for Speed and Zstd 12 for Memory
\* and Balanced; other text with compressibility above 0.9, neural compression
\* enabled and a target other than Speed gets NeuralCompression; all other text
\* gets, for Speed, Lz4 Standard when the entropy is below 0.5 and framed
\* Snappy otherwise, Zstd 15 for Ratio, Deflate 6 for Memory and Zstd 6 for
\* Balanced.
C20_TextArms ==
    (TableCalled /\ call.analysis.file_type.class = "Text"
                 /\ call.analysis.compressibility_score > 800) =>
        LET analysis == call.analysis
            algorithm == call.algorithm
            target == options.optimization_target
        IN  IF analysis.file_type.subtype = "SourceCode"
            THEN CASE target = "Ratio" ->
                        /\ algorithm.tag = "HybridText"
                        /\ algorithm.primary.tag = "Zstd" /\ algorithm.primary.level = 19
                        /\ algorithm.secondary.tag = "Brotli"
                   [] target = "Speed" ->
                        algorithm.tag = "Lz4" /\ algorithm.variant = "HighCompression"
                   [] OTHER -> algorithm.tag = "Zstd" /\ algorithm.level = 12
            ELSE IF analysis.compressibility_score > 900 /\ options.enable_neural
                    /\ target # "Speed"
            THEN algorithm.tag = "NeuralCompression"
            ELSE TextByTarget(
                    IF analysis.entropy < 500
                    THEN algorithm.tag = "Lz4" /\ algorithm.variant = "Standard"
                    ELSE algorithm.tag = "Snappy" /\ algorithm.variant = "Framed",
                    15, 6)

\* plain text of entropy 0.6 and compressibility 0.9 got Snappy for Speed
C20_Witness ==
    /\ TableCalled
    /\ call.analysis.file_type = FileType("Text", "PlainText")
    /\ call.analysis.compressibility_score = 900
    /\ call.analysis.entropy = 600
    /\ options.optimization_target = "Speed"
    /\ call.algorithm.tag = "Snappy"


\* C21 (as stated): with options.algorithm unset, for every analysis of class
\* Binary with compressibility above 0.5 the selector returns Lz4 without high
\* compression for Speed, Zstd 12 for Ratio, Snappy for Memory and Zstd 3 for
\* Balanced.
C21_Original ==
    (TableCalled /\ call.analysis.file_type.class = "Binary"
                 /\ call.analysis.compressibility_score > 500) =>
        LET algorithm == call.algorithm
            target == options.optimization_target
        IN  CASE target = "Speed" -> algorithm.tag = "Lz4" /\ algorithm.variant = "Standard"
              [] target = "Ratio" -> algorithm.tag = "Zstd" /\ algorithm.level = 12
              [] target = "Memory" -> algorithm.tag = "Snappy"
              [] OTHER -> algorithm.tag = "Zstd" /\ algorithm.level = 3

\* C21: with options.algorithm unset, for every analysis of class Binary with
\* compressibility above 0.5 the selector returns Lz4 HighCompression
\* (acceleration 4) for Memory, and for every other target a HybridBinary of
\* Lz4 Standard as the fast codec and Zstd as the slow codec, at level 18 for
\* Ratio and level 12 for Speed and Balanced, with an entropy threshold of 0.7
\* and a size threshold of a quarter of options.chunk_size.
C21_BinaryArm ==
    (TableCalled /\ call.analysis.file_type.class = "Binary"
                 /\ call.analysis.compressibility_score > 500) =>
        LET algorithm == call.algorithm
            target == options.optimization_target
        IN  IF target = "Memory"
            THEN /\ algorithm.tag = "Lz4"
                 /\ algorithm.variant = "HighCompression"
                 /\ algorithm.acceleration = 4
            ELSE /\ algorithm.tag = "HybridBinary"
                 /\ algorithm.fast_algo.tag = "Lz4"
                 /\ algorithm.fast_algo.variant = "Standard"
                 /\ algorithm.slow_algo.tag = "Zstd"
                 /\ algorithm.slow_algo.level = (IF target = "Ratio" THEN 18 ELSE 12)
                 /\ algorithm.entropy_threshold = 700
                 /\ 4 * algorithm.size_threshold = options.chunk_size * 1024

\* a compressible Binary analysis got the hybrid with Zstd 12 under Speed
C21_Witness ==
    /\ TableCalled
    /\ call.analysis.file_type.class = "Binary"
    /\ call.analysis.compressibility_score = 510
    /\ options.optimization_target = "Speed"
    /\ call.algorithm.tag = "HybridBinary"
    /\ call.algorithm.slow_algo.level = 12

\* the analysis matches none of the four rows above the last one of the
\* documented table
NoEarlierRow ==
    LET analysis == call.analysis
    IN  /\ analysis.file_type.class \notin {"Image", "Archive"}
        /\ ~(analysis.entropy > 950 /\ analysis.compressibility_score < 100)
        /\ ~(analysis.file_type.class = "Text" /\ analysis.compressibility_score > 800)
        /\ ~(analysis.file_type.class = "Binary" /\ analysis.compressibility_score > 500)

\* C22 (as stated): with options.algorithm unset, for every analysis matching
\* none of the four earlier rows the selector returns Lz4 without high
\* compression for Speed, Zstd 9 for Ratio, Snappy for Memory and Zstd 3 for
\* Balanced.
C22_Original ==
    (TableCalled /\ NoEarlierRow) =>
        LET algorithm == call.algorithm
            target == options.optimization_target
        IN  CASE target = "Speed" -> algorithm.tag = "Lz4" /\ algorithm.variant = "Standard"
              [] target = "Ratio" -> algorithm.tag = "Zstd" /\ algorithm.level = 9
              [] target = "Memory" -> algorithm.tag = "Snappy"
              [] OTHER -> algorithm.tag = "Zstd" /\ algorithm.level = 3

\* C22: with options.algorithm unset, for every analysis matching none of the
\* four earlier rows and whose class is not Video or Audio: when the
\* compressibility is above 0.9, neural compression is enabled and the target
\* is not Speed the selector returns NeuralCompression; otherwise it returns,
\* for Speed, Lz4 Standard when the entropy is below 0.5 and framed Snappy
\* otherwise, Zstd 15 for Ratio, Deflate 6 for Memory and Zstd 6 for Balanced.
C22_DefaultArms ==
    (TableCalled /\ NoEarlierRow
                 /\ call.analysis.file_type.class \notin {"Video", "Audio"}) =>
        LET analysis == call.analysis
            algorithm == call.algorithm
            target == options.optimization_target
        IN  IF analysis.compressibility_score > 900 /\ options.enable_neural
               /\ target # "Speed"
            THEN /\ algorithm.tag = "NeuralCompression"
                 /\ algorithm.quality = (IF target = "Ratio" THEN "Perfect" ELSE "Balanced")
            ELSE CASE target = "Speed" ->
                        IF analysis.entropy < 500
                        THEN algorithm.tag = "Lz4" /\ algorithm.variant = "Standard"
                        ELSE algorithm.tag = "Snappy" /\ algorithm.variant = "Framed"
                   [] target = "Ratio" ->
                        /\ algorithm.tag = "Zstd" /\ algorithm.level = 15
                        /\ algorithm.dictionary = options.enable_dictionary
                   [] target = "Memory" ->
                        algorithm.tag = "Deflate" /\ algorithm.level = 6
                   [] OTHER -> algorithm.tag = "Zstd" /\ algorithm.level = 6

\* unrecognised content of middling entropy got Deflate 6 under Memory
C22_Witness ==
    /\ TableCalled
    /\ call.analysis.file_type.class = "Unknown"
    /\ call.analysis.entropy = 600
    /\ call.analysis.compressibility_score = 300
    /\ options.optimization_target = "Memory"
    /\ call.algorithm = Deflate(6, "Default", 15, 4)


\* clamp(x, 0, 1000) of a product in hundred-thousandths, as thousandths
ClampedScore(entropy, factor) ==
    LET product == ((1000 - entropy) * factor) \div 100
    IN  IF product > 1000 THEN 1000 ELSE IF product < 0 THEN 0 ELSE product

FramePayload(frame) == SubSeq(frame, 13, Len(frame))

\* C24 (as stated): for a Store descriptor the payload of every frame equals
\* the chunk plaintext byte for byte, so comp_len = orig_len for every chunk.
C24_Original ==
    (Succeeded /\ attempt.algorithm.tag = "Store") =>
        /\ Len(chunks) = Len(produced)
        /\ \A i \in DOMAIN chunks :
              /\ FramePayload(chunks[i]) = produced[i]
              /\ U32At(chunks[i], 5) = U32At(chunks[i], 1)

\* C24: for a Store descriptor the payload of every frame is the chunk
\* plaintext after the descriptor's transformations, applied in order; orig_len
\* is the plaintext length and comp_len the payload length; with an empty
\* transformation list the payload equals the plaintext byte for byte and
\* comp_len = orig_len.
C24_StorePayload ==
    (Succeeded /\ attempt.algorithm.tag = "Store") =>
        LET t == attempt.algorithm.transformations
            Transformed(data) ==
                IF t = <<>> THEN data
                ELSE IF Len(t) = 1 THEN apply_transformation(data, t[1])
                ELSE apply_transformation(apply_transformation(data, t[1]), t[2])
        IN  /\ Len(t) <= 2
            /\ Len(chunks) = Len(produced)
            /\ \A i \in DOMAIN chunks :
                  /\ FramePayload(chunks[i]) = Transformed(produced[i])
                  /\ U32At(chunks[i], 1) = Len(produced[i])
                  /\ U32At(chunks[i], 5) = Len(FramePayload(chunks[i]))
                  /\ t = <<>> =>
                        /\ FramePayload(chunks[i]) = produced[i]
                        /\ U32At(chunks[i], 5) = U32At(chunks[i], 1)

\* Store with ByteSwap then Rle wrote a three-byte chunk as a four-byte payload
C24_Witness ==
    /\ Succeeded
    /\ attempt.algorithm.tag = "Store"
    /\ Len(attempt.algorithm.transformations) = 2
    /\ Len(chunks) = 1
    /\ produced = << <<65, 0, 0>> >>
    /\ FramePayload(chunks[1]) = <<1, 0, 1, 65, 1, 0>>


\* C25: in any sequence of analyze_file calls and file modifications, every
\* analyze_file call returns what sampling and analysing the current contents
\* of the file produces, whether or not the cache holds an entry for the key.
C25_CacheTransparent ==
    [][ (analyzed' # analyzed) => (analyzed' = FreshAnalysis) ]_vars


\* C26: for every number of chunks and every max_threads, compress_file_chunked
\* eventually returns: the read task, the workers and the collector never end
\* up blocked forever on the two bounded channels.
C26_PipelineReturns == (pc = "pipeline") ~> (pc # "pipeline")


\* the chunk the read task has read and cannot send yet
ReaderPending ==
    IF pc = "pipeline" /\ ~reader.done /\ reader.pos < Len(input.data)
       /\ Len(chunk_chan) >= ChannelCapacity
    THEN 1 ELSE 0

\* chunks in memory during the pipeline: read and not sent, queued for the
\* workers, inside workers, queued for the collector, and stored in results
InFlight ==
    ReaderPending + Len(chunk_chan) + Cardinality(working) + Len(result_chan)
    + collector.completed

\* C27: at every point of a compress_file run the number of chunks held in
\* memory (plaintext read or queued for workers, inside workers, compressed and
\* awaiting the writer) is at most 5 * max_threads + 1: the two channels of
\* 2 * max_threads slots each, one chunk per worker and one in the read task;
\* it does not grow with the number of chunks of the file.
C27_BoundedChunksInMemory ==
    /\ InFlight <= 5 * config.max_threads + 1
    /\ Len(chunks) <= 5 * config.max_threads + 1

\* one worker, a file read in five chunks: all five frames were held at once
\* and the run succeeded
C27_Witness ==
    /\ Succeeded
    /\ config.max_threads = 1
    /\ Len(produced) = 5
    /\ Len(chunks) = 5
    /\ collector.completed = 5


\* the most pipelines one compress_file call can fail: each of the three
\* attempts, and the fallback descriptor after the first two
MaxFailedPipelines == 5

\* C28: if compress_file_chunked returns an error for a chunk, the read task
\* has already finished and every worker of that pipeline eventually leaves its
\* loop: none stays blocked on a send or a receive.
C28_WorkersStop ==
    /\ [](collector.state = "failed" => reader.done)
    /\ \A i \in 1..MaxFailedPipelines :
          (Len(orphans) >= i) ~> (Len(orphans) >= i /\ orphans[i].running = 0)

\* compress_file_chunked has returned the error while a worker of the failed
\* pipeline still holds a result to send and another chunk is still queued
C28_Witness ==
    /\ \E i \in DOMAIN orphans :
          /\ orphans[i].holding > 0
          /\ orphans[i].queue > 0


\* the chunk IDs on a channel, and whether each occurs once
ChannelIds(chan) == {chan[i].chunk_id : i \in DOMAIN chan}

NoDuplicateIds(chan) == Cardinality(ChannelIds(chan)) = Len(chan)

WorkingIds == {item.chunk_id : item \in working}

CollectedIds ==
    IF collector.state = "collect"
    THEN {i - 1 : i \in {j \in DOMAIN collector.results : collector.results[j] # None}}
    ELSE {}

RECURSIVE Concat(_)
Concat(seqs) == IF seqs = <<>> THEN <<>> ELSE Head(seqs) \o Concat(Tail(seqs))

\* C29: while the pipeline runs, the chunks read so far carry the IDs
\* 0..n-1 in read order and each is in exactly one place (queued, in one
\* worker, queued as a result, or collected), so each is compressed once; in a
\* successful run that read n chunks the chunks are the input in order, and
\* the chunk-count field, the number of frames written and the chunk_count
\* of the returned metadata all equal n.
C29_ChunkAccounting ==
    /\ pc = "pipeline" =>
          /\ reader.chunk_id = Len(produced)
          /\ NoDuplicateIds(chunk_chan) /\ NoDuplicateIds(result_chan)
          /\ Cardinality(WorkingIds) = Cardinality(working)
          /\ \A i \in DOMAIN chunk_chan :
                chunk_chan[i].data = produced[chunk_chan[i].chunk_id + 1]
          /\ ChannelIds(chunk_chan) \cup WorkingIds \cup ChannelIds(result_chan)
                \cup CollectedIds = 0..(Len(produced) - 1)
          /\ Len(chunk_chan) + Cardinality(working) + Len(result_chan)
                + Cardinality(CollectedIds) = Len(produced)
    /\ Succeeded =>
          LET n == Len(produced)
          IN  /\ Concat(produced) = input.data
              /\ Len(chunks) = n
              /\ ChunkCount(out.data) = n
              /\ WalkFrames(out.data, ChunkCountPos(out.data) + 4 + 8 * n, n) # -1
              /\ result.metadata.chunk_count = n

\* a successful run of three chunks on two workers
C29_Witness ==
    /\ Succeeded
    /\ config.max_threads = 2
    /\ Len(produced) = 3
    /\ ChunkCount(out.data) = 3
    /\ result.metadata.chunk_count = 3


\* C30: whenever compress_file has passed validation and started the chunk
\* pipeline, the chunk size the pipeline reads with satisfies
\* chunk_size * 3 + codec memory <= memory_limit.
C30_MemoryCheckGuardsChunkSize ==
    pc = "pipeline" =>
        estimate_memory_usage(attempt.algorithm, attempt.chunk_size)
            <= config.memory_limit

\* ------------------------------------------- the descriptor of a successful call
\* the serialized descriptor that follows the header of a container
DescriptorOf(file) ==
    SubSeq(file, HeaderLen + 5, HeaderLen + 4 + U32At(file, HeaderLen + 1))

\* C31: whenever compress_file succeeds, the descriptor of the returned metadata
\* is the descriptor serialized into the container and used for its chunks,
\* also after a failed attempt was retried.
C31_MetadataDescriptor ==
    Succeeded =>
        /\ result.metadata.algorithm = attempt.algorithm
        /\ DescriptorOf(out.data) = serialize_algorithm(result.metadata.algorithm)

\* ------------------------------------------- the size the metadata reports
\* C32: whenever compress_file succeeds, compressed_size of the returned
\* metadata is the number of bytes written to the output file: header,
\* descriptor, chunk count, index, frames and anything appended after them.
C32_CompressedSize ==
    Succeeded => result.metadata.compressed_size = Len(out.data)

\* ------------------------------------------- the attempts of one call
\* C33: one call of perform_compression_with_recovery invokes
\* perform_compression_internal at most max_attempts = 3 times, whatever
\* sequence of recoverable and non-recoverable failures it meets.
C33_AtMostThreeInternalCalls == internal_calls <= 3

\* ------------------------------------------- the frame of a rejected call
\* a step in which compress_file returns the error of its validation
RejectedByValidation ==
    LET v == validate_compression_inputs(input, parent_exists, options, config)
    IN  /\ pc = "idle"
        /\ pc' = "idle"
        /\ ~v.result.ok
        /\ result' = [status |-> "err", kind |-> v.result.kind]
        /\ dec' = NoResult
        /\ now' = now

\* C34: a compress_file call rejected by input or option validation leaves the
\* file system as it was: no output file and no directory has been created.
C34_RejectedCallLeavesFilesystem ==
    [][ RejectedByValidation => (out' = out /\ parent_exists' = parent_exists) ]_vars

\* ------------------------------------------- the results of a batch
\* C35: compress_batch returns exactly one result per input pair, and the i-th
\* result is the outcome for the i-th pair of the list the caller passed, for
\* every interleaving of the concurrent compressions.
C35_BatchResultsInInputOrder ==
    batch.state = "returned" =>
        /\ Len(batch.results) = Len(batch.files)
        /\ \A i \in 1..Len(batch.files) :
              batch.results[i] = BatchOutcome(batch.files[i])

\* ------------------------------------------- the progress counter
\* the collection loop of compress_file_chunked has received every chunk
AllChunksCollected ==
    /\ pc = "pipeline"
    /\ collector.state = "collect"
    /\ collector.completed = collector.total_chunks

\* C36: the progress counter of compress_file counts input bytes consumed: when
\* the pipeline has collected all chunks of a file, the counter equals the
\* input file size that was given to it as its total.
C36_ProgressCountsBytes ==
    AllChunksCollected => progress.position = progress.total
====
